---- MODULE Spec2Model ----
(***************************************************************************)
(* Request/notification correlation of rsp-client.                         *)
(*                                                                         *)
(* One JavaScript macrotask (a public call, an inbound notification, an    *)
(* inbound response, a timer callback) is one action; the promise          *)
(* reactions (microtasks) a macrotask schedules run inside the same        *)
(* action, after its synchronous part, as the event loop runs them.        *)
(***************************************************************************)
EXTENDS Integers, Sequences, FiniteSets, TLC

\* ------------------------------------------------------------------ bounds
MaxEvents == 2
MaxTime == 2
MaxDisconnects == 2
MaxShutdowns == 1
MaxRegistrations == 2
MaxSeverity == 16
MaxPrompts == 4

\* two calls can be in flight at once
Ops == {1, 2}
Timeouts == {1, 2}
Ids == {"wfly", "foo"}

\* ------------------------------------------------- protocol/serverState.ts
STARTING == 1
STARTED == 2
STOPPED == 4

Kinds == {"deleteServerSync", "startServerSync", "stopServerSync",
          "createServerFromPath", "createServerFromBean"}

EventNames == {"serverRemoved", "serverStateChanged", "serverAdded"}

\* the event name each correlated operation watches
EventOf(k) ==
    CASE k = "deleteServerSync" -> "serverRemoved"
      [] k \in {"startServerSync", "stopServerSync"} -> "serverStateChanged"
      [] OTHER -> "serverAdded"

\* payloads an inbound notification of the given name can carry: a server
\* state for 'serverStateChanged', a server handle otherwise
Payloads(name) ==
    IF name = "serverStateChanged"
    THEN [id : Ids, state : {STARTING, STARTED, STOPPED}]
    ELSE [id : Ids]

\* the value of a promise that has not resolved
Nil == [id |-> ""]

\* ---------------------------------------------------- protocol/protocol.ts
\* ServerBean: a candidate found by discovery or handed in by the caller
Locations == {"/opt/wildfly", "/opt/cdk"}
TypeCategories == {"WILDFLY", "MINISHIFT", "CDK"}
AdapterTypes == {"org.jboss.wildfly"}

ServerBeans == [name : Ids, location : Locations,
                typeCategory : TypeCategories, serverAdapterTypeId : AdapterTypes]

\* the attributes argument: a map from keys to values the caller chose;
\* none (undefined) is the empty map once Object.assign({}, ..) has copied it
AttributeKeys == {"server.home.dir", "server.home.file", "vm.install.path"}
AttributeMaps == UNION {[K -> {"/user"}] : K \in SUBSET AttributeKeys}
NoAttributes == [k \in {} |-> "/user"]

\* the arguments of a call: the candidate (create from a bean), the id and
\* the attributes
NoBean == [name |-> "", location |-> "", typeCategory |-> "",
           serverAdapterTypeId |-> ""]
DefaultBean == [name |-> "wfly", location |-> "/opt/wildfly",
                typeCategory |-> "WILDFLY",
                serverAdapterTypeId |-> "org.jboss.wildfly"]
NoArguments == [bean |-> NoBean, id |-> "", attributes |-> NoAttributes]

\* a request on the channel: its type and its parameter
NoRequest == [type |-> "none", params |-> <<>>]
Request(type, params) == [type |-> type, params |-> params]

\* Object.assign({}, attributes): a new map with the entries of attributes
Assign(attributes) == [k \in DOMAIN attributes |-> attributes[k]]

\* atts[key] = v
Put(atts, key, v) ==
    [k \in DOMAIN atts \cup {key} |-> IF k = key THEN v ELSE atts[k]]

\* faulty variant: the id of the caller is used as it is
ServerIdAsGiven(id, serverBean) == id

\* const serverId = id ? id : serverBean.name
ServerId(id, serverBean) == IF id # "" THEN id ELSE serverBean.name

\* faulty variant: the home directory is set before the caller's attributes
\* are copied over it
HomeAttributesUnderCallers(serverBean, attributes) ==
    LET atts == [k \in DOMAIN attributes \cup {"server.home.dir"} |->
                    IF k \in DOMAIN attributes THEN attributes[k]
                    ELSE serverBean.location] IN
    IF serverBean.typeCategory = "MINISHIFT" \/ serverBean.typeCategory = "CDK"
    THEN Put(atts, "server.home.file", serverBean.location)
    ELSE atts

\* atts = Object.assign({}, attributes); atts['server.home.dir'] = location;
\* for MINISHIFT and CDK atts['server.home.file'] = location
HomeAttributes(serverBean, attributes) ==
    LET atts == Put(Assign(attributes), "server.home.dir", serverBean.location) IN
    IF serverBean.typeCategory = "MINISHIFT" \/ serverBean.typeCategory = "CDK"
    THEN Put(atts, "server.home.file", serverBean.location)
    ELSE atts

\* the ServerAttributes createServerFromBeanAsync sends
CreateServerFromBeanAsyncRequest(a) ==
    Request("createServer",
            [id |-> ServerId(a.id, a.bean),
             serverType |-> a.bean.serverAdapterTypeId,
             attributes |-> HomeAttributes(a.bean, a.attributes)])

\* the ServerAttributes createServerFromBean sends: built the same way, and
\* 'server.home.file' is set once more for MINISHIFT and CDK
CreateServerFromBeanRequest(a) ==
    LET serverAttributes == [id |-> ServerId(a.id, a.bean),
                             serverType |-> a.bean.serverAdapterTypeId,
                             attributes |-> HomeAttributes(a.bean, a.attributes)] IN
    Request("createServer",
            IF a.bean.typeCategory = "MINISHIFT" \/ a.bean.typeCategory = "CDK"
            THEN [serverAttributes EXCEPT
                      !.attributes = Put(@, "server.home.file", a.bean.location)]
            ELSE serverAttributes)

\* the ServerAttributes createServerFromPathAsync sends once discovery has
\* answered serverBeans: the id as given, the rest from serverBeans[0]
CreateServerFromPathAsyncRequest(a, serverBeans) ==
    Request("createServer",
            [id |-> a.id,
             serverType |-> serverBeans[1].serverAdapterTypeId,
             attributes |-> HomeAttributes(serverBeans[1], a.attributes)])

\* the ServerAttributes createServerFromPath sends once discovery has
\* answered serverBeans
CreateServerFromPathRequest(a, serverBeans) ==
    LET atts == Put(Assign(a.attributes), "server.home.dir",
                    serverBeans[1].location) IN
    Request("createServer",
            [id |-> a.id,
             serverType |-> serverBeans[1].serverAdapterTypeId,
             attributes |->
                 IF serverBeans[1].typeCategory = "MINISHIFT"
                        \/ serverBeans[1].typeCategory = "CDK"
                 THEN Put(atts, "server.home.file", serverBeans[1].location)
                 ELSE atts])

\* the discovery request of the create-from-path calls
FindServerBeansRequest == Request("findServerBeans", [filepath |-> "/path"])

\* the first request a correlated operation sends
FirstRequest(k, a) ==
    CASE k = "createServerFromBean" -> CreateServerFromBeanRequest(a)
      [] k = "createServerFromPath" -> FindServerBeansRequest
      [] k = "deleteServerSync" -> Request("deleteServer", [id |-> a.id])
      [] k \in {"startServerSync", "ServerLauncher.startServerSync"} ->
             Request("startServerAsync", [id |-> a.id])
      [] OTHER -> Request("stopServerAsync", [id |-> a.id])

\* the arguments the calls that name only an id are made with
Arguments(k, id) ==
    [bean |-> IF k = "createServerFromBean" THEN DefaultBean ELSE NoBean,
     id |-> id, attributes |-> NoAttributes]

VARIABLES
    listeners,  \* EventEmitter: event name -> sequence of listener functions
    kind,       \* per call: which operation was called ("none": not called)
    target,     \* per call: the id the predicate compares with
    beans,      \* createServerFromPath: state of the FindServerBeans request
    result,     \* the `result` / `response` variable of the call's closure
    conts,      \* reactions queued on the pending result by result.then(..)
    timer,      \* the call's setTimeout timer
    deadline,   \* the time the timer is due
    outcome,    \* state of the promise returned to the caller
    value,      \* the value that promise resolved with
    preCount,   \* listener count of the watched event name before the call
    args,       \* per call: the arguments it was called with
    found,      \* per call: serverBeans, the answer of its discovery request
    request,    \* per call: the last request it sent on the channel
    connection, \* RSPClient.connection: the message connection
    socket,     \* RSPClient.socket
    teardown,   \* the calls the client made on emitter, connection and socket
    raised,     \* what the last call of disconnect/shutdownServer threw
    connecting, \* the promise and the timer of RSPClient.connect
    timeout,    \* createServerFromPathAsync: the timeout of its second request
    stateHandler, \* the handler the connection holds for state-change
                \* notifications: 0 is the adapter that emits 'serverStateChanged'
    calls,      \* per call: the calls it made, in order (what a spy records)
    matched,    \* per call: its listener has accepted an event for its request
    accepted,   \* per call: the payloads its listener accepted, in delivery order
    ignored,    \* per call: number of events its listener was called with and rejected
    now,        \* the clock
    emitted,    \* number of notifications dispatched so far
    status,     \* StatusSeverity: the status handed to the predicates
    verdict,    \* StatusSeverity: the predicate called last and what it returned
    promise,    \* Capabilities: the promise the string-prompt handler returns
    prompts     \* Capabilities: the string prompts received, in order

vars == <<status, verdict, promise, prompts, listeners, kind, target, beans, result, conts, timer, deadline,
          outcome, value, preCount, args, found, request, connection, socket,
          teardown, raised, connecting, stateHandler, timeout, calls, matched,
          accepted, ignored, now, emitted>>

\* ---------------------------------------------------------- EventEmitter
\* the closure registered by a call, and the predicate function handed to
\* Common.sendRequestSync (a different function object)
Handler(o) == <<"handler", o>>
Predicate(o) == <<"listener", o>>

\* faulty variant: the listener is added with on(..), at the end
PrependListenerAppends(seq, l) == Append(seq, l)

PrependListener(seq, l) == <<l>> \o seq

\* index of the last occurrence of l in seq, 0 when absent
RECURSIVE LastIndexOf(_, _, _)
LastIndexOf(seq, l, i) ==
    IF i = 0 THEN 0
    ELSE IF seq[i] = l THEN i ELSE LastIndexOf(seq, l, i - 1)

\* removes the most recently added instance; no-op when l is not registered
RemoveListener(seq, l) ==
    LET i == LastIndexOf(seq, l, Len(seq)) IN
    IF i = 0 THEN seq
    ELSE SubSeq(seq, 1, i - 1) \o SubSeq(seq, i + 1, Len(seq))

IsRegistered(name, l) == \E i \in 1..Len(listeners[name]) : listeners[name][i] = l

\* number of times call c occurs in a call trace
RECURSIVE Count(_, _)
Count(seq, c) ==
    IF seq = <<>> THEN 0
    ELSE (IF Head(seq) = c THEN 1 ELSE 0) + Count(Tail(seq), c)

\* -------------------------------------------------------------- predicates
\* faulty variant: the start/stop predicates compare the server id only
MatchesAnyState(o, p) == p.id = target[o]

Matches(o, p) ==
    CASE kind[o] = "startServerSync" -> p.id = target[o] /\ p.state = STARTED
      [] kind[o] = "stopServerSync" -> p.id = target[o] /\ p.state = STOPPED
      [] OTHER -> p.id = target[o]

\* ---------------------------------------------------------------- promise
\* faulty variant: a later resolve/reject overwrites the outcome
SettleOverwrite(cur, new) == new

\* resolve/reject of the returned promise: only the first call settles it
Settle(cur, new) == IF cur = "pending" THEN new ELSE cur

\* faulty variant: every operation passes a function that was never registered
UnsubscribedPredicate(o) == Predicate(o)

\* the function object the success continuation passes to removeListener
Unsubscribed(o) ==
    IF kind[o] = "deleteServerSync" THEN Predicate(o) ELSE Handler(o)

\* faulty variant: every continuation stores its payload as the result
ContinuationLastWins(m, o, p) ==
    [m EXCEPT !.timer[o] = IF @ = "armed" THEN "cleared" ELSE @,
              !.listeners[EventOf(kind[o])] = RemoveListener(@, Unsubscribed(o)),
              !.outcome[o] = Settle(@, "success"),
              !.value[o] = p,
              !.calls[o] = @ \o <<"clearTimeout", "removeListener", "resolve">>]

\* the then-callback of a matching event: clearTimeout, removeListener, resolve
Continuation(m, o, p) ==
    [m EXCEPT !.timer[o] = IF @ = "armed" THEN "cleared" ELSE @,
              !.listeners[EventOf(kind[o])] = RemoveListener(@, Unsubscribed(o)),
              !.outcome[o] = Settle(@, "success"),
              !.value[o] = IF m.outcome[o] = "pending" THEN p ELSE @,
              !.calls[o] = @ \o <<"clearTimeout", "removeListener", "resolve">>]

\* the microtask queue, run in order
RECURSIVE RunMicrotasks(_)
RunMicrotasks(m) ==
    IF m.micro = <<>> THEN m
    ELSE LET t == Head(m.micro) IN
         RunMicrotasks(Continuation([m EXCEPT !.micro = Tail(@)], t[1], t[2]))

\* the state a macrotask works on; micro: reactions ready to run when its
\* synchronous part ends, thrown: a listener threw out of the dispatch,
\* order: the listeners a dispatch has invoked, in order
Machine == [listeners |-> listeners, conts |-> conts, timer |-> timer,
            deadline |-> deadline, outcome |-> outcome, value |-> value,
            calls |-> calls, matched |-> matched, accepted |-> accepted,
            ignored |-> ignored,
            micro |-> <<>>,
            thrown |-> FALSE,
            order |-> <<>>]

\* ------------------------------------------------------------------- emit
\* faulty variant: the listener does not wait for the response of the request
HandlerCallNoWait(m, o, p) ==
    IF ~Matches(o, p) THEN [m EXCEPT !.ignored[o] = @ + 1]
    ELSE [m EXCEPT !.micro = Append(@, <<o, p>>), !.matched[o] = TRUE,
                          !.accepted[o] = Append(@, p)]

\* faulty variant: the listener cancels the timer before it evaluates the predicate
HandlerCallCancelsTimer(m, o, p) ==
    IF ~Matches(o, p)
    THEN [m EXCEPT !.ignored[o] = @ + 1,
                   !.timer[o] = IF @ = "armed" THEN "cleared" ELSE @]
    ELSE CASE result[o] = "undefined" -> [m EXCEPT !.thrown = TRUE]
           [] result[o] = "pending" ->
                [m EXCEPT !.conts[o] = Append(@, p), !.matched[o] = TRUE,
                          !.accepted[o] = Append(@, p)]
           [] result[o] = "resolved" ->
                [m EXCEPT !.micro = Append(@, <<o, p>>), !.matched[o] = TRUE,
                          !.accepted[o] = Append(@, p)]
           [] OTHER -> [m EXCEPT !.matched[o] = TRUE,
                          !.accepted[o] = Append(@, p)]

\* the listener closure of a call, invoked with payload p: when the predicate
\* holds, result.then(continuation)
HandlerCall(m, o, p) ==
    IF ~Matches(o, p) THEN [m EXCEPT !.ignored[o] = @ + 1]
    ELSE CASE result[o] = "undefined" -> [m EXCEPT !.thrown = TRUE]
           [] result[o] = "pending" ->
                [m EXCEPT !.conts[o] = Append(@, p), !.matched[o] = TRUE,
                          !.accepted[o] = Append(@, p)]
           [] result[o] = "resolved" ->
                [m EXCEPT !.micro = Append(@, <<o, p>>), !.matched[o] = TRUE,
                          !.accepted[o] = Append(@, p)]
           [] OTHER -> [m EXCEPT !.matched[o] = TRUE,
                          !.accepted[o] = Append(@, p)]

\* EventEmitter.emit: calls a snapshot of the listeners in order; a throwing
\* listener ends the dispatch
RECURSIVE Dispatch(_, _, _)
Dispatch(snap, p, m) ==
    IF snap = <<>> \/ m.thrown THEN m
    ELSE LET called == [m EXCEPT !.order = Append(@, Head(snap))] IN
         IF Head(snap)[1] = "handler"
         THEN Dispatch(Tail(snap), p, HandlerCall(called, Head(snap)[2], p))
         ELSE Dispatch(Tail(snap), p, called)

\* ------------------------------------------------------------------ state
\* connect: not called yet, and resolved by the 'connect' event of the socket
NotConnecting == [outcome |-> "none", timer |-> "none", deadline |-> 0]
Connected == [outcome |-> "resolved", timer |-> "cleared", deadline |-> 0]

\* no status classified, no string prompt received
NoStatus == [severity |-> "undefined"]
NoVerdict == [is |-> "none", value |-> FALSE]
Unsettled == [state |-> "pending", value |-> ""]

\* no call made yet, no listener registered, no event dispatched
NoCalls ==
    /\ verdict = NoVerdict
    /\ promise = Unsettled
    /\ prompts = <<>>
    /\ listeners = [n \in EventNames |-> <<>>]
    /\ kind = [o \in Ops |-> "none"]
    /\ target = [o \in Ops |-> ""]
    /\ beans = [o \in Ops |-> "none"]
    /\ result = [o \in Ops |-> "undefined"]
    /\ conts = [o \in Ops |-> <<>>]
    /\ timer = [o \in Ops |-> "none"]
    /\ deadline = [o \in Ops |-> 0]
    /\ outcome = [o \in Ops |-> "none"]
    /\ value = [o \in Ops |-> Nil]
    /\ preCount = [o \in Ops |-> 0]
    /\ args = [o \in Ops |-> NoArguments]
    /\ found = [o \in Ops |-> <<>>]
    /\ request = [o \in Ops |-> NoRequest]
    /\ timeout = [o \in Ops |-> 0]
    /\ stateHandler = 0
    /\ calls = [o \in Ops |-> <<>>]
    /\ matched = [o \in Ops |-> FALSE]
    /\ accepted = [o \in Ops |-> <<>>]
    /\ ignored = [o \in Ops |-> 0]
    /\ now = 0
    /\ emitted = 0

\* the utilities constructed on a live connection
Init ==
    /\ NoCalls
    /\ status = NoStatus
    /\ connection = "listening"
    /\ socket = "connected"
    /\ teardown = <<>>
    /\ raised = "none"
    /\ connecting = Connected

\* ---------------------------------------------------------------- actions
\* the state a macrotask leaves when its reactions have run
Commit(m) ==
    /\ listeners' = m.listeners
    /\ conts' = m.conts
    /\ timer' = m.timer
    /\ deadline' = m.deadline
    /\ outcome' = m.outcome
    /\ value' = m.value
    /\ calls' = m.calls
    /\ matched' = m.matched
    /\ accepted' = m.accepted
    /\ ignored' = m.ignored

\* faulty variant: the request is sent before the listener is registered
ExecutorSendFirst == <<"setTimeout", "sendRequest", "prependListener">>

\* the calls the promise executor makes before it returns (or first awaits)
Executor == <<"setTimeout", "prependListener", "sendRequest">>

\* a correlated operation is called with arguments a: new Promise,
\* setTimeout, the listener is prepended, the (first) request is sent.  Calls
\* are numbered in the order they are made; the timeout is one the clock can
\* reach.
Invoke(o, k, a, t) ==
    /\ kind[o] = "none"
    /\ \A q \in Ops : q < o => kind[q] # "none"
    /\ now + t <= MaxTime
    /\ kind' = [kind EXCEPT ![o] = k]
    /\ target' = [target EXCEPT ![o] = IF k = "createServerFromBean"
                                       THEN ServerId(a.id, a.bean) ELSE a.id]
    /\ args' = [args EXCEPT ![o] = a]
    /\ request' = [request EXCEPT ![o] = FirstRequest(k, a)]
    /\ outcome' = [outcome EXCEPT ![o] = "pending"]
    /\ timer' = [timer EXCEPT ![o] = "armed"]
    /\ deadline' = [deadline EXCEPT ![o] = now + t]
    /\ preCount' = [preCount EXCEPT ![o] = Len(listeners[EventOf(k)])]
    /\ listeners' = [listeners EXCEPT ![EventOf(k)] = PrependListener(@, Handler(o))]
    /\ calls' = [calls EXCEPT ![o] = Executor]
    /\ IF k = "createServerFromPath"
       THEN /\ beans' = [beans EXCEPT ![o] = "pending"]
            /\ result' = result
       ELSE /\ beans' = beans
            /\ result' = [result EXCEPT ![o] = "pending"]
    /\ UNCHANGED <<status, verdict, promise, prompts,
                   conts, value, found, connection, socket, teardown, raised,
                   connecting, timeout, stateHandler, matched, accepted,
                   ignored, now, emitted>>

\* a correlated operation is called for a server id; the ids being
\* interchangeable, the first call targets 'wfly'
Call(o, k, id, t) ==
    /\ o = 1 => id = "wfly"
    /\ Invoke(o, k, Arguments(k, id), t)

\* createServerFromPath: the FindServerBeans response arrives with the list
\* serverBeans; serverBeans[0] of an empty list throws inside the async
\* executor, otherwise the create request is sent
BeansFound(o, serverBeans) ==
    /\ beans[o] = "pending"
    /\ found' = [found EXCEPT ![o] = serverBeans]
    /\ IF serverBeans = <<>>
       THEN /\ beans' = [beans EXCEPT ![o] = "empty"]
            /\ UNCHANGED <<result, calls, request>>
       ELSE /\ beans' = [beans EXCEPT ![o] = "found"]
            /\ result' = [result EXCEPT ![o] = "pending"]
            /\ calls' = [calls EXCEPT ![o] = Append(@, "sendRequest")]
            /\ request' = [request EXCEPT ![o] =
                               CreateServerFromPathRequest(args[o], serverBeans)]
    /\ UNCHANGED <<status, verdict, promise, prompts,
                   listeners, kind, target, conts, timer, deadline, outcome,
                   value, preCount, args, connection, socket, teardown,
                   raised, connecting, stateHandler, timeout, matched,
                   accepted, ignored, now, emitted>>

\* the FindServerBeans response arrives with n beans
BeansResolve(o, n) == BeansFound(o, [i \in 1..n |-> DefaultBean])

\* createServerFromPath: the FindServerBeans request is rejected; the await
\* throws inside the async executor
BeansReject(o) ==
    /\ beans[o] = "pending"
    /\ beans' = [beans EXCEPT ![o] = "rejected"]
    /\ UNCHANGED <<status, verdict, promise, prompts,
                   listeners, kind, target, result, conts, timer, deadline,
                   outcome, value, preCount, args, found, request, connection,
                   socket, teardown, raised, connecting, stateHandler,
                   timeout, calls, matched, accepted, ignored, now, emitted>>

\* faulty variant: the response of the request cancels the timer, as it does in
\* sendSimpleRequest
ResponseResolvesClearsTimer(o) ==
    /\ result[o] = "pending"
    /\ result' = [result EXCEPT ![o] = "resolved"]
    /\ Commit(RunMicrotasks([Machine EXCEPT
                  !.micro = [i \in 1..Len(conts[o]) |-> <<o, conts[o][i]>>],
                  !.conts[o] = <<>>,
                  !.timer[o] = IF @ = "armed" THEN "cleared" ELSE @]))
    /\ UNCHANGED <<status, verdict, promise, prompts,
                   kind, target, beans, preCount, args, found, request,
                   connection, socket, teardown, raised, connecting,
                   stateHandler, timeout, now, emitted>>

\* the response of the correlated request arrives: the reactions queued on
\* it run, in the order they were queued
ResponseResolves(o) ==
    /\ result[o] = "pending"
    /\ result' = [result EXCEPT ![o] = "resolved"]
    /\ Commit(RunMicrotasks([Machine EXCEPT
                  !.micro = [i \in 1..Len(conts[o]) |-> <<o, conts[o][i]>>],
                  !.conts[o] = <<>>]))
    /\ UNCHANGED <<status, verdict, promise, prompts,
                   kind, target, beans, preCount, args, found, request,
                   connection, socket, teardown, raised, connecting,
                   stateHandler, timeout, now, emitted>>

\* the correlated request is rejected: reactions registered with then(cb)
\* alone are never called
ResponseRejects(o) ==
    /\ result[o] = "pending"
    /\ result' = [result EXCEPT ![o] = "rejected"]
    /\ conts' = [conts EXCEPT ![o] = <<>>]
    /\ UNCHANGED <<status, verdict, promise, prompts,
                   listeners, kind, target, beans, timer, deadline, outcome,
                   value, preCount, args, found, request, connection, socket,
                   teardown, raised, connecting, stateHandler, timeout, calls,
                   matched, accepted, ignored, now, emitted>>

\* faulty variant: the timer callback drops every listener of the event name
TimerFiresRemovesAll(o) ==
    /\ timer[o] = "armed"
    /\ now >= deadline[o]
    /\ timer' = [timer EXCEPT ![o] = "fired"]
    /\ outcome' = [outcome EXCEPT ![o] = Settle(@, "timeout")]
    /\ calls' = [calls EXCEPT ![o] = Append(@, "reject")]
    /\ listeners' = [listeners EXCEPT ![EventOf(kind[o])] = <<>>]
    /\ UNCHANGED <<status, verdict, promise, prompts,
                   kind, target, beans, result, conts, deadline, value,
                   preCount, args, found, request, connection, socket,
                   teardown, raised, connecting, stateHandler, timeout,
                   matched, accepted, ignored, now, emitted>>

\* faulty variant: the timer callback builds a rejected promise of its own and
\* leaves the promise of the call alone
TimerFiresDetached(o) ==
    /\ timer[o] = "armed"
    /\ now >= deadline[o]
    /\ timer' = [timer EXCEPT ![o] = "fired"]
    /\ calls' = [calls EXCEPT ![o] = Append(@, "Promise.reject")]
    /\ UNCHANGED <<status, verdict, promise, prompts,
                   listeners, kind, target, beans, result, conts, deadline,
                   outcome, value, preCount, args, found, request, connection,
                   socket, teardown, raised, connecting, stateHandler,
                   timeout, matched, accepted, ignored, now, emitted>>

\* the timer callback: reject(new Error(timeoutMessage))
TimerFires(o) ==
    /\ timer[o] = "armed"
    /\ now >= deadline[o]
    /\ timer' = [timer EXCEPT ![o] = "fired"]
    /\ outcome' = [outcome EXCEPT ![o] = Settle(@, "timeout")]
    /\ calls' = [calls EXCEPT ![o] = Append(@, "reject")]
    /\ UNCHANGED <<status, verdict, promise, prompts,
                   listeners, kind, target, beans, result, conts, deadline,
                   value, preCount, args, found, request, connection, socket,
                   teardown, raised, connecting, stateHandler, timeout,
                   matched, accepted, ignored, now, emitted>>

\* an inbound notification: the adapter emits it under its event name
Emit(name, p) ==
    /\ emitted < MaxEvents
    /\ listeners[name] # <<>>
    /\ emitted' = emitted + 1
    /\ Commit(RunMicrotasks(Dispatch(listeners[name], p, Machine)))
    /\ UNCHANGED <<status, verdict, promise, prompts,
                   kind, target, beans, result, preCount, args, found,
                   request, connection, socket, teardown, raised, connecting,
                   stateHandler, timeout, now>>

\* time passes; a due timer fires before the clock moves on
Tick ==
    /\ now < MaxTime
    /\ \A o \in Ops : timer[o] = "armed" => now < deadline[o]
    /\ now' = now + 1
    /\ UNCHANGED <<status, verdict, promise, prompts,
                   listeners, kind, target, beans, result, conts, timer,
                   deadline, outcome, value, preCount, args, found, request,
                   connection, socket, teardown, raised, connecting,
                   stateHandler, timeout, calls, matched, accepted, ignored,
                   emitted>>

Next ==
    \/ \E o \in Ops, k \in Kinds, id \in Ids, t \in Timeouts : Call(o, k, id, t)
    \/ \E o \in Ops, n \in 0..1 : BeansResolve(o, n)
    \/ \E o \in Ops : BeansReject(o)
    \/ \E o \in Ops : ResponseResolves(o)
    \/ \E o \in Ops : ResponseRejects(o)
    \/ \E o \in Ops : TimerFires(o)
    \/ \E name \in EventNames : \E p \in Payloads(name) : Emit(name, p)
    \/ Tick

Spec == Init /\ [][Next]_vars

\* ------------------------------------------- payloads told apart by type
\* server handles carry the server type next to the id: two events for one
\* id can differ
ServerTypes == {"wildfly", "eap"}

TypedPayloads(name) ==
    IF name = "serverStateChanged"
    THEN [id : Ids, state : {STARTING, STARTED, STOPPED}, type : ServerTypes]
    ELSE [id : Ids, type : ServerTypes]

\* one call in flight, every payload of its event name in both types
NextTyped ==
    \/ \E k \in Kinds, id \in Ids, t \in Timeouts : Call(1, k, id, t)
    \/ \E o \in Ops, n \in 0..1 : BeansResolve(o, n)
    \/ \E o \in Ops : BeansReject(o)
    \/ \E o \in Ops : ResponseResolves(o)
    \/ \E o \in Ops : ResponseRejects(o)
    \/ \E o \in Ops : TimerFires(o)
    \/ \E name \in EventNames : \E p \in TypedPayloads(name) : Emit(name, p)
    \/ Tick

SpecTyped == Init /\ [][NextTyped]_vars

\* ------------------------------------------------ Common.sendSimpleRequest
\* what the channel can answer a plain request with
Responses == [id : Ids]

\* the asynchronous variants that are one call of Common.sendSimpleRequest
AsyncKinds == {"createServerFromBeanAsync", "deleteServerAsync",
               "startServerAsync", "stopServerAsync"}

\* the calls whose pending request was sent by Common.sendSimpleRequest
SimpleKinds == {"sendSimpleRequest", "createServerFromPathAsync"} \cup AsyncKinds

\* the request an asynchronous variant hands to Common.sendSimpleRequest
AsyncRequest(k, a) ==
    CASE k = "createServerFromBeanAsync" -> CreateServerFromBeanAsyncRequest(a)
      [] k = "deleteServerAsync" -> Request("deleteServer", [id |-> a.id])
      [] k = "startServerAsync" -> Request("startServerAsync", [id |-> a.id])
      [] k = "stopServerAsync" -> Request("stopServerAsync", [id |-> a.id])
      [] OTHER -> Request("request", [id |-> a.id])

\* faulty variant: the asynchronous variant registers a listener as the
\* synchronous one does
SendSimpleRequestSubscribes(o, k, a, t) ==
    /\ kind[o] = "none"
    /\ \A q \in Ops : q < o => kind[q] # "none"
    /\ now + t <= MaxTime
    /\ kind' = [kind EXCEPT ![o] = k]
    /\ args' = [args EXCEPT ![o] = a]
    /\ request' = [request EXCEPT ![o] = AsyncRequest(k, a)]
    /\ outcome' = [outcome EXCEPT ![o] = "pending"]
    /\ timer' = [timer EXCEPT ![o] = "armed"]
    /\ deadline' = [deadline EXCEPT ![o] = now + t]
    /\ result' = [result EXCEPT ![o] = "pending"]
    /\ listeners' = [listeners EXCEPT !["serverAdded"] =
                         PrependListener(@, Handler(o))]
    /\ calls' = [calls EXCEPT ![o] = <<"setTimeout", "sendRequest">>]
    /\ UNCHANGED <<status, verdict, promise, prompts,
                   target, beans, conts, value, preCount, found, connection,
                   socket, teardown, raised, connecting, stateHandler,
                   timeout, matched, accepted, ignored, now, emitted>>

\* Common.sendSimpleRequest called by operation k with arguments a:
\* new Promise, setTimeout, sendRequest(..).then(..)
SendSimpleRequest(o, k, a, t) ==
    /\ kind[o] = "none"
    /\ \A q \in Ops : q < o => kind[q] # "none"
    /\ now + t <= MaxTime
    /\ kind' = [kind EXCEPT ![o] = k]
    /\ args' = [args EXCEPT ![o] = a]
    /\ request' = [request EXCEPT ![o] = AsyncRequest(k, a)]
    /\ outcome' = [outcome EXCEPT ![o] = "pending"]
    /\ timer' = [timer EXCEPT ![o] = "armed"]
    /\ deadline' = [deadline EXCEPT ![o] = now + t]
    /\ result' = [result EXCEPT ![o] = "pending"]
    /\ calls' = [calls EXCEPT ![o] = <<"setTimeout", "sendRequest">>]
    /\ UNCHANGED <<status, verdict, promise, prompts,
                   listeners, target, beans, conts, value, preCount, found,
                   connection, socket, teardown, raised, connecting,
                   stateHandler, timeout, matched, accepted, ignored, now,
                   emitted>>

\* a plain request is called
SimpleCall(o, t) == SendSimpleRequest(o, "sendSimpleRequest", NoArguments, t)

\* faulty variant: the then-callback resolves without clearing the timer
SimpleResolvesKeepsTimer(o, r) ==
    /\ kind[o] \in SimpleKinds
    /\ result[o] = "pending"
    /\ result' = [result EXCEPT ![o] = "resolved"]
    /\ outcome' = [outcome EXCEPT ![o] = Settle(@, "success")]
    /\ value' = [value EXCEPT ![o] = IF outcome[o] = "pending" THEN r ELSE @]
    /\ calls' = [calls EXCEPT ![o] = @ \o <<"resolve">>]
    /\ UNCHANGED <<status, verdict, promise, prompts,
                   listeners, kind, target, beans, conts, timer, deadline,
                   preCount, args, found, request, connection, socket,
                   teardown, raised, connecting, stateHandler, timeout,
                   matched, accepted, ignored, now, emitted>>

\* the response r of a plain request arrives: clearTimeout(timer), resolve(r)
SimpleResolves(o, r) ==
    /\ kind[o] \in SimpleKinds
    /\ result[o] = "pending"
    /\ result' = [result EXCEPT ![o] = "resolved"]
    /\ timer' = [timer EXCEPT ![o] = IF @ = "armed" THEN "cleared" ELSE @]
    /\ outcome' = [outcome EXCEPT ![o] = Settle(@, "success")]
    /\ value' = [value EXCEPT ![o] = IF outcome[o] = "pending" THEN r ELSE @]
    /\ calls' = [calls EXCEPT ![o] = @ \o <<"clearTimeout", "resolve">>]
    /\ UNCHANGED <<status, verdict, promise, prompts,
                   listeners, kind, target, beans, conts, deadline, preCount,
                   args, found, request, connection, socket, teardown, raised,
                   connecting, stateHandler, timeout, matched, accepted,
                   ignored, now, emitted>>

\* the channel rejects a plain request: the then-callback is not called and
\* the promise then(..) returns, which nothing holds, is the one that rejects
SimpleRejects(o) ==
    /\ kind[o] \in SimpleKinds
    /\ result[o] = "pending"
    /\ result' = [result EXCEPT ![o] = "rejected"]
    /\ UNCHANGED <<status, verdict, promise, prompts,
                   listeners, kind, target, beans, conts, timer, deadline,
                   outcome, value, preCount, args, found, request, connection,
                   socket, teardown, raised, connecting, stateHandler,
                   timeout, calls, matched, accepted, ignored, now, emitted>>

NextSimple ==
    \/ \E o \in Ops, t \in Timeouts : SimpleCall(o, t)
    \/ \E o \in Ops, r \in Responses : SimpleResolves(o, r)
    \/ \E o \in Ops : SimpleRejects(o)
    \/ \E o \in Ops : TimerFires(o)
    \/ Tick

SpecSimple == Init /\ [][NextSimple]_vars

\* ------------------------------------------- RSPClient.createServer{Sync,Async}
\* the id argument: a server id, or none (undefined or '')
OptionalIds == Ids \cup {""}

\* setTimeout(.., timeout / 2): a delay below 1 is run as 1
Halved(t) == IF t \div 2 >= 1 THEN t \div 2 ELSE 1

\* faulty variant: the id is never asked for
IdRequiredNever(isPath, id) == FALSE

\* typeof(pathOrBean) === 'string' and !id
IdRequired(isPath, id) == isPath /\ id = ""

\* return Promise.reject(new Error('ID is required when creating server from
\* a path')): entry is the client method that was called
RejectIdRequired(o, entry) ==
    /\ kind[o] = "none"
    /\ \A q \in Ops : q < o => kind[q] # "none"
    /\ kind' = [kind EXCEPT ![o] = entry]
    /\ outcome' = [outcome EXCEPT ![o] = "idRequired"]
    /\ UNCHANGED <<status, verdict, promise, prompts,
                   listeners, target, beans, result, conts, timer, deadline,
                   value, preCount, args, found, request, connection, socket,
                   teardown, raised, connecting, stateHandler, timeout, calls,
                   matched, accepted, ignored, now, emitted>>

\* createServerFromPathAsync called with arguments a, up to its await: the
\* discovery request is sent through Common.sendSimpleRequest with half the
\* timeout
PathAsyncInvoke(o, a, t) ==
    /\ kind[o] = "none"
    /\ \A q \in Ops : q < o => kind[q] # "none"
    /\ now + t <= MaxTime
    /\ kind' = [kind EXCEPT ![o] = "createServerFromPathAsync"]
    /\ target' = [target EXCEPT ![o] = a.id]
    /\ args' = [args EXCEPT ![o] = a]
    /\ request' = [request EXCEPT ![o] = FindServerBeansRequest]
    /\ outcome' = [outcome EXCEPT ![o] = "pending"]
    /\ beans' = [beans EXCEPT ![o] = "pending"]
    /\ timer' = [timer EXCEPT ![o] = "armed"]
    /\ deadline' = [deadline EXCEPT ![o] = now + Halved(t)]
    /\ timeout' = [timeout EXCEPT ![o] = t]
    /\ calls' = [calls EXCEPT ![o] = <<"setTimeout", "sendRequest">>]
    /\ UNCHANGED <<status, verdict, promise, prompts,
                   listeners, result, conts, value, preCount, found,
                   connection, socket, teardown, raised, connecting,
                   stateHandler, matched, accepted, ignored, now, emitted>>

\* createServerFromPathAsync called for a server id
PathAsyncCall(o, id, t) ==
    /\ o = 1 => id = "wfly"
    /\ PathAsyncInvoke(o, Arguments("createServerFromPathAsync", id), t)

\* createServerFromPathAsync: the discovery response arrives with serverBeans.
\* The then-callback of the first request clears its timer and resolves it;
\* when the await has not thrown yet the function goes on: serverBeans[0] of
\* an empty list throws, otherwise the create request is sent through
\* Common.sendSimpleRequest with the whole timeout
AsyncBeansFound(o, serverBeans) ==
    /\ kind[o] = "createServerFromPathAsync"
    /\ beans[o] = "pending"
    /\ beans' = [beans EXCEPT ![o] = IF serverBeans = <<>> THEN "empty"
                                     ELSE "found"]
    /\ IF outcome[o] # "pending"
       THEN /\ calls' = [calls EXCEPT ![o] = @ \o <<"clearTimeout", "resolve">>]
            /\ UNCHANGED <<timer, deadline, outcome, result, found, request>>
       ELSE IF serverBeans = <<>>
       THEN /\ calls' = [calls EXCEPT ![o] = @ \o <<"clearTimeout", "resolve">>]
            /\ timer' = [timer EXCEPT ![o] = "cleared"]
            /\ outcome' = [outcome EXCEPT ![o] = "typeError"]
            /\ found' = [found EXCEPT ![o] = serverBeans]
            /\ UNCHANGED <<deadline, result, request>>
       ELSE /\ calls' = [calls EXCEPT ![o] = @ \o <<"clearTimeout", "resolve",
                                                      "setTimeout", "sendRequest">>]
            /\ timer' = [timer EXCEPT ![o] = "armed"]
            /\ deadline' = [deadline EXCEPT ![o] = now + timeout[o]]
            /\ result' = [result EXCEPT ![o] = "pending"]
            /\ found' = [found EXCEPT ![o] = serverBeans]
            /\ request' = [request EXCEPT ![o] =
                          CreateServerFromPathAsyncRequest(args[o], serverBeans)]
            /\ UNCHANGED outcome
    /\ UNCHANGED <<status, verdict, promise, prompts,
                   listeners, kind, target, conts, value, preCount, args,
                   connection, socket, teardown, raised, connecting,
                   stateHandler, timeout, matched, accepted, ignored, now,
                   emitted>>

\* the discovery response arrives with n beans
AsyncBeansResolve(o, n) == AsyncBeansFound(o, [i \in 1..n |-> DefaultBean])

\* createServerFromPathAsync: the discovery request is rejected; the first
\* Common.sendSimpleRequest has no rejection handler
AsyncBeansReject(o) ==
    /\ kind[o] = "createServerFromPathAsync"
    /\ beans[o] = "pending"
    /\ beans' = [beans EXCEPT ![o] = "rejected"]
    /\ UNCHANGED <<status, verdict, promise, prompts,
                   listeners, kind, target, result, conts, timer, deadline,
                   outcome, value, preCount, args, found, request, connection,
                   socket, teardown, raised, connecting, stateHandler,
                   timeout, calls, matched, accepted, ignored, now, emitted>>

\* RSPClient.createServerSync(pathOrBean, id, timeout); name is the name of
\* the bean when pathOrBean is one
CreateServerSync(o, isPath, name, id, t) ==
    IF IdRequired(isPath, id) THEN RejectIdRequired(o, "createServerSync")
    ELSE IF isPath THEN Call(o, "createServerFromPath", id, t)
    ELSE /\ o = 1 => ServerId(id, [DefaultBean EXCEPT !.name = name]) = "wfly"
         /\ Invoke(o, "createServerFromBean",
                   [bean |-> [DefaultBean EXCEPT !.name = name], id |-> id,
                    attributes |-> NoAttributes], t)

\* RSPClient.createServerAsync(pathOrBean, id, timeout); createServerFromBeanAsync
\* is one call of Common.sendSimpleRequest
CreateServerAsync(o, isPath, name, id, t) ==
    IF IdRequired(isPath, id) THEN RejectIdRequired(o, "createServerAsync")
    ELSE IF isPath THEN PathAsyncCall(o, id, t)
    ELSE /\ o = 1 => ServerId(id, [DefaultBean EXCEPT !.name = name]) = "wfly"
         /\ SendSimpleRequest(o, "createServerFromBeanAsync",
                              [bean |-> [DefaultBean EXCEPT !.name = name],
                               id |-> id, attributes |-> NoAttributes], t)

NextClient ==
    \/ \E o \in Ops, isPath \in BOOLEAN, name \in Ids, id \in OptionalIds,
          t \in Timeouts : CreateServerSync(o, isPath, name, id, t)
    \/ \E o \in Ops, isPath \in BOOLEAN, name \in Ids, id \in OptionalIds,
          t \in Timeouts : CreateServerAsync(o, isPath, name, id, t)
    \/ \E o \in Ops, n \in 0..1 : kind[o] \in Kinds /\ BeansResolve(o, n)
    \/ \E o \in Ops : kind[o] \in Kinds /\ BeansReject(o)
    \/ \E o \in Ops : kind[o] \in Kinds /\ ResponseResolves(o)
    \/ \E o \in Ops : kind[o] \in Kinds /\ ResponseRejects(o)
    \/ \E o \in Ops, n \in 0..1 : AsyncBeansResolve(o, n)
    \/ \E o \in Ops : AsyncBeansReject(o)
    \/ \E o \in Ops, r \in Responses : SimpleResolves(o, r)
    \/ \E o \in Ops : SimpleRejects(o)
    \/ \E o \in Ops : TimerFires(o)
    \/ \E name \in {"serverAdded"} : \E p \in Payloads(name) : Emit(name, p)
    \/ Tick

SpecClient == Init /\ [][NextClient]_vars

\* ------------------------------------------ ServerCreation.createServer*
\* the arguments of the create calls: any candidate, an id or none, any
\* attributes; a create from a path gets its candidate from discovery
CreateArguments == [bean : ServerBeans, id : OptionalIds,
                    attributes : AttributeMaps]
PathArguments == [bean : {NoBean}, id : Ids, attributes : AttributeMaps]

\* what discovery can answer: no candidate, one, or two
BeanLists == {<<>>} \cup {<<b>> : b \in ServerBeans}
                   \cup {<<b, DefaultBean>> : b \in ServerBeans}

\* one create call, sync or async, from a bean or from a path, made at time 0
\* with the longest timeout
NextCreate ==
    \/ \E a \in CreateArguments : Invoke(1, "createServerFromBean", a, MaxTime)
    \/ \E a \in CreateArguments :
          SendSimpleRequest(1, "createServerFromBeanAsync", a, MaxTime)
    \/ \E a \in PathArguments : Invoke(1, "createServerFromPath", a, MaxTime)
    \/ \E a \in PathArguments : PathAsyncInvoke(1, a, MaxTime)
    \/ \E serverBeans \in BeanLists :
          kind[1] \in Kinds /\ BeansFound(1, serverBeans)
    \/ kind[1] \in Kinds /\ BeansReject(1)
    \/ \E serverBeans \in BeanLists : AsyncBeansFound(1, serverBeans)
    \/ AsyncBeansReject(1)
    \/ kind[1] \in Kinds /\ ResponseResolves(1)
    \/ kind[1] \in Kinds /\ ResponseRejects(1)
    \/ \E r \in Responses : SimpleResolves(1, r)
    \/ SimpleRejects(1)
    \/ TimerFires(1)
    \/ \E p \in Payloads("serverAdded") : Emit("serverAdded", p)
    \/ Tick

SpecCreate == Init /\ [][NextCreate]_vars

\* ------------------------------------- ServerLauncher.{start,stop}ServerSync
\* the start/stop that wait on a notification handler of the connection
LauncherKinds == {"ServerLauncher.startServerSync", "ServerLauncher.stopServerSync"}

LauncherMatches(o, p) ==
    /\ p.id = target[o]
    /\ p.state = IF kind[o] = "ServerLauncher.startServerSync"
                 THEN STARTED ELSE STOPPED

\* setTimeout first, then new Promise: connection.onNotification replaces the
\* handler of the state-change notification, then the request is sent
LauncherCall(o, k, id, t) ==
    /\ kind[o] = "none"
    /\ \A q \in Ops : q < o => kind[q] # "none"
    /\ o = 1 => id = "wfly"
    /\ now + t <= MaxTime
    /\ kind' = [kind EXCEPT ![o] = k]
    /\ target' = [target EXCEPT ![o] = id]
    /\ args' = [args EXCEPT ![o] = Arguments(k, id)]
    /\ request' = [request EXCEPT ![o] = FirstRequest(k, Arguments(k, id))]
    /\ outcome' = [outcome EXCEPT ![o] = "pending"]
    /\ timer' = [timer EXCEPT ![o] = "armed"]
    /\ deadline' = [deadline EXCEPT ![o] = now + t]
    /\ stateHandler' = o
    /\ result' = [result EXCEPT ![o] = "pending"]
    /\ calls' = [calls EXCEPT ![o] = <<"setTimeout", "onNotification", "sendRequest">>]
    /\ UNCHANGED <<status, verdict, promise, prompts,
                   listeners, beans, conts, value, preCount, found,
                   connection, socket, teardown, raised, connecting, timeout,
                   matched, accepted, ignored, now, emitted>>

\* the then-callback of a matching notification: clearTimeout, resolve
LauncherContinuation(m, o, p) ==
    [m EXCEPT !.timer[o] = IF @ = "armed" THEN "cleared" ELSE @,
              !.outcome[o] = Settle(@, "success"),
              !.value[o] = IF m.outcome[o] = "pending" THEN p ELSE @,
              !.calls[o] = @ \o <<"clearTimeout", "resolve">>]

\* the reactions queued on the request of call o, run in order
RECURSIVE LauncherRun(_, _, _)
LauncherRun(m, o, ps) ==
    IF ps = <<>> THEN m
    ELSE LauncherRun(LauncherContinuation(m, o, Head(ps)), o, Tail(ps))

\* the notification handler registered by call o, invoked with state p
LauncherHandler(m, o, p) ==
    IF ~LauncherMatches(o, p) THEN [m EXCEPT !.ignored[o] = @ + 1]
    ELSE LET a == [m EXCEPT !.matched[o] = TRUE, !.accepted[o] = Append(@, p)] IN
         CASE result[o] = "pending" -> [a EXCEPT !.conts[o] = Append(@, p)]
           [] result[o] = "resolved" -> LauncherContinuation(a, o, p)
           [] OTHER -> a

\* an inbound state-change notification goes to the one handler the
\* connection holds for it: the adapter that emits 'serverStateChanged', or
\* the handler of the latest start/stop call
LauncherNotify(p) ==
    /\ emitted < MaxEvents
    /\ emitted' = emitted + 1
    /\ IF stateHandler = 0
       THEN Commit(RunMicrotasks(
                Dispatch(listeners["serverStateChanged"], p, Machine)))
       ELSE Commit(LauncherHandler(Machine, stateHandler, p))
    /\ UNCHANGED <<status, verdict, promise, prompts,
                   kind, target, beans, result, preCount, args, found,
                   request, connection, socket, teardown, raised, connecting,
                   stateHandler, timeout, now>>

\* the response of the start/stop request arrives
LauncherResponseResolves(o) ==
    /\ kind[o] \in LauncherKinds
    /\ result[o] = "pending"
    /\ result' = [result EXCEPT ![o] = "resolved"]
    /\ Commit(LauncherRun([Machine EXCEPT !.conts[o] = <<>>], o, conts[o]))
    /\ UNCHANGED <<status, verdict, promise, prompts,
                   kind, target, beans, preCount, args, found, request,
                   connection, socket, teardown, raised, connecting,
                   stateHandler, timeout, now, emitted>>

\* the timer callback: return Promise.reject(message), a rejected promise of
\* its own; the promise of the call is not touched
LauncherTimerFires(o) ==
    /\ kind[o] \in LauncherKinds
    /\ timer[o] = "armed"
    /\ now >= deadline[o]
    /\ timer' = [timer EXCEPT ![o] = "fired"]
    /\ calls' = [calls EXCEPT ![o] = Append(@, "Promise.reject")]
    /\ UNCHANGED <<status, verdict, promise, prompts,
                   listeners, kind, target, beans, result, conts, deadline,
                   outcome, value, preCount, args, found, request, connection,
                   socket, teardown, raised, connecting, stateHandler,
                   timeout, matched, accepted, ignored, now, emitted>>

NextLauncher ==
    \/ \E o \in Ops, k \in LauncherKinds, id \in Ids, t \in Timeouts :
          LauncherCall(o, k, id, t)
    \/ \E o \in Ops : LauncherResponseResolves(o)
    \/ \E o \in Ops : kind[o] \in LauncherKinds /\ ResponseRejects(o)
    \/ \E o \in Ops : LauncherTimerFires(o)
    \/ \E p \in Payloads("serverStateChanged") : LauncherNotify(p)
    \/ Tick

SpecLauncher == Init /\ [][NextLauncher]_vars

\* ------------------------------------------------------ RSPClient.on<Event>
\* the listener functions of the library's consumers
Users == {1}

UserListener(u) == <<"user", u>>

\* faulty variant: on<Event> registers with prependListener
OnPrepends(name, u) ==
    /\ ~IsRegistered(name, UserListener(u))
    /\ listeners' = [listeners EXCEPT ![name] = PrependListener(@, UserListener(u))]
    /\ UNCHANGED <<status, verdict, promise, prompts,
                   kind, target, beans, result, conts, timer, deadline,
                   outcome, value, preCount, args, found, request, connection,
                   socket, teardown, raised, connecting, stateHandler,
                   timeout, calls, matched, accepted, ignored, now, emitted>>

\* onServerAdded, onServerRemoved, onServerStateChange: emitter.on(name, listener)
\* adds the listener at the end; each consumer listener is registered once
On(name, u) ==
    /\ ~IsRegistered(name, UserListener(u))
    /\ listeners' = [listeners EXCEPT ![name] = Append(@, UserListener(u))]
    /\ UNCHANGED <<status, verdict, promise, prompts,
                   kind, target, beans, result, conts, timer, deadline,
                   outcome, value, preCount, args, found, request, connection,
                   socket, teardown, raised, connecting, stateHandler,
                   timeout, calls, matched, accepted, ignored, now, emitted>>

\* consumers subscribe while correlated operations come and go; no timer
\* callback touches a listener list: the clock stands still and every call
\* has the same timeout
NextBus ==
    \/ \E name \in EventNames, u \in Users : On(name, u)
    \/ \E o \in Ops, k \in Kinds, id \in Ids : Call(o, k, id, MaxTime)
    \/ \E o \in Ops, n \in 0..1 : BeansResolve(o, n)
    \/ \E o \in Ops : BeansReject(o)
    \/ \E o \in Ops : ResponseResolves(o)
    \/ \E o \in Ops : ResponseRejects(o)
    \/ \E name \in EventNames : \E p \in Payloads(name) : Emit(name, p)

SpecBus == Init /\ [][NextBus]_vars

\* ------------------------------------------------- asynchronous variants
\* the arguments of an asynchronous variant: those of a create from a bean,
\* or a server id
AsyncArguments(k) ==
    IF k = "createServerFromBeanAsync" THEN CreateArguments
    ELSE {Arguments(k, id) : id \in Ids}

\* one asynchronous call while consumers subscribe and events are dispatched
NextAsync ==
    \/ \E name \in EventNames, u \in Users : On(name, u)
    \/ \E k \in AsyncKinds : \E a \in AsyncArguments(k) :
          SendSimpleRequest(1, k, a, MaxTime)
    \/ \E a \in PathArguments : PathAsyncInvoke(1, a, MaxTime)
    \/ \E serverBeans \in BeanLists : AsyncBeansFound(1, serverBeans)
    \/ AsyncBeansReject(1)
    \/ \E r \in Responses : SimpleResolves(1, r)
    \/ SimpleRejects(1)
    \/ TimerFires(1)
    \/ \E name \in EventNames : \E p \in Payloads(name) : Emit(name, p)
    \/ Tick

SpecAsync == Init /\ [][NextAsync]_vars

\* --------------------------------------------------- registration order
\* two consumers; consumer listeners are interchangeable, so under one event
\* name they are numbered in the order they register, as calls are.  The
\* correlated operations are start and stop, which share an event name.
Consumers == {1, 2}

NextOrder ==
    \/ \E name \in EventNames, u \in Consumers :
          /\ \A v \in Consumers : v < u => IsRegistered(name, UserListener(v))
          /\ On(name, u)
    \/ \E o \in Ops, k \in {"startServerSync", "stopServerSync"}, id \in Ids :
          Call(o, k, id, MaxTime)
    \/ \E o \in Ops : ResponseResolves(o)
    \/ \E o \in Ops : ResponseRejects(o)
    \/ \E name \in EventNames : \E p \in Payloads(name) : Emit(name, p)

SpecOrder == Init /\ [][NextOrder]_vars

\* ------------------------------------- RSPClient.{connect,disconnect}
\* the client as constructed: no socket opened, no connection created
InitClient ==
    /\ NoCalls
    /\ status = NoStatus
    /\ connection = "undefined"
    /\ socket = "undefined"
    /\ teardown = <<>>
    /\ raised = "none"
    /\ connecting = NotConnecting

\* what a call on an already disposed connection of the json-rpc library does
LibraryOutcomes == {"returns", "throws"}

\* connect(timeout): arms the timer and opens the socket
Connect(t) ==
    /\ connecting.outcome = "none"
    /\ now + t <= MaxTime
    /\ connecting' = [outcome |-> "pending", timer |-> "armed",
                      deadline |-> now + t]
    /\ socket' = "connecting"
    /\ UNCHANGED <<status, verdict, promise, prompts,
                   listeners, connection, teardown, raised, stateHandler,
                   kind, target, beans, result, conts, timer, deadline, outcome,
                   value, preCount, args, found, request, timeout, calls,
                   matched, accepted, ignored, now, emitted>>

\* the timer of connect fires: the promise is rejected, the socket stays open
ConnectTimerFires ==
    /\ connecting.timer = "armed"
    /\ now >= connecting.deadline
    /\ connecting' = [connecting EXCEPT !.timer = "fired",
                                        !.outcome = Settle(@, "timeout")]
    /\ UNCHANGED <<status, verdict, promise, prompts,
                   listeners, connection, socket, teardown, raised,
                   stateHandler,
                   kind, target, beans, result, conts, timer, deadline, outcome,
                   value, preCount, args, found, request, timeout, calls,
                   matched, accepted, ignored, now, emitted>>

\* the 'connect' event of the socket: the connection is created and listens,
\* the utilities are constructed, the timer is cleared, the promise resolved
SocketConnect ==
    /\ socket = "connecting"
    /\ connection' = "listening"
    /\ socket' = "connected"
    /\ stateHandler' = 0
    /\ connecting' = [connecting EXCEPT
                          !.timer = IF @ = "armed" THEN "cleared" ELSE @,
                          !.outcome = Settle(@, "resolved")]
    /\ UNCHANGED <<status, verdict, promise, prompts,
                   listeners, teardown, raised,
                   kind, target, beans, result, conts, timer, deadline, outcome,
                   value, preCount, args, found, request, timeout, calls,
                   matched, accepted, ignored, now, emitted>>

\* faulty variant: the socket is destroyed before the connection is disposed
TeardownDestroysFirst(trace, again) ==
    /\ listeners' = [n \in EventNames |-> <<>>]
    /\ IF connection = "disposed" /\ again = "throws"
       THEN /\ teardown' = trace \o <<"removeAllListeners", "destroy",
                                      "dispose">>
            /\ raised' = "ConnectionError: Connection is disposed"
            /\ socket' = "destroyed"
            /\ UNCHANGED connection
       ELSE /\ teardown' = trace \o <<"removeAllListeners", "destroy",
                                      "dispose", "end">>
            /\ raised' = "none"
            /\ connection' = "disposed"
            /\ socket' = "destroyed"

\* disconnect past its guard, after the calls in trace: the emitter loses
\* every listener, then the connection is disposed, then the socket is ended
\* and destroyed; an exception of dispose leaves the rest undone
Teardown(trace, again) ==
    /\ listeners' = [n \in EventNames |-> <<>>]
    /\ IF connection = "disposed" /\ again = "throws"
       THEN /\ teardown' = trace \o <<"removeAllListeners", "dispose">>
            /\ raised' = "ConnectionError: Connection is disposed"
            /\ UNCHANGED <<connection, socket>>
       ELSE /\ teardown' = trace \o <<"removeAllListeners", "dispose", "end",
                                      "destroy">>
            /\ raised' = "none"
            /\ connection' = "disposed"
            /\ socket' = "destroyed"

\* faulty variant: no guard, the teardown is attempted without a connection
DisconnectNoGuard(again) ==
    /\ Count(teardown, "removeAllListeners") < MaxDisconnects
    /\ IF connection = "undefined"
       THEN /\ listeners' = [n \in EventNames |-> <<>>]
            /\ teardown' = teardown \o <<"removeAllListeners">>
            /\ raised' = "TypeError"
            /\ UNCHANGED <<connection, socket>>
       ELSE Teardown(teardown, again)
    /\ UNCHANGED <<status, verdict, promise, prompts,
                   connecting, stateHandler,
                   kind, target, beans, result, conts, timer, deadline, outcome,
                   value, preCount, args, found, request, timeout, calls,
                   matched, accepted, ignored, now, emitted>>

\* disconnect(): throws when no connection was ever created, else tears down
Disconnect(again) ==
    /\ Count(teardown, "removeAllListeners") < MaxDisconnects
    /\ IF connection = "undefined"
       THEN /\ raised' = "ConnectionError: Connection not initialized"
            /\ UNCHANGED <<listeners, connection, socket, teardown>>
       ELSE Teardown(teardown, again)
    /\ UNCHANGED <<status, verdict, promise, prompts,
                   connecting, stateHandler,
                   kind, target, beans, result, conts, timer, deadline, outcome,
                   value, preCount, args, found, request, timeout, calls,
                   matched, accepted, ignored, now, emitted>>

\* faulty variant: the client disconnects before it notifies the server
ShutdownServerDisconnectsFirst(sent, again) ==
    /\ Count(teardown, "removeAllListeners") < MaxDisconnects
    /\ Count(teardown, "sendNotification") < MaxShutdowns
    /\ IF connection = "undefined"
       THEN /\ raised' = "TypeError"
            /\ UNCHANGED <<listeners, connection, socket, teardown>>
       ELSE /\ listeners' = [n \in EventNames |-> <<>>]
            /\ teardown' = teardown \o <<"removeAllListeners", "dispose",
                                         "end", "destroy", "sendNotification">>
            /\ raised' = "none"
            /\ connection' = "disposed"
            /\ socket' = "destroyed"
    /\ UNCHANGED <<status, verdict, promise, prompts,
                   connecting, stateHandler,
                   kind, target, beans, result, conts, timer, deadline, outcome,
                   value, preCount, args, found, request, timeout, calls,
                   matched, accepted, ignored, now, emitted>>

\* shutdownServer(): one shutdown notification, then disconnect()
ShutdownServer(sent, again) ==
    /\ Count(teardown, "removeAllListeners") < MaxDisconnects
    /\ Count(teardown, "sendNotification") < MaxShutdowns
    /\ IF connection = "undefined"
       THEN /\ raised' = "TypeError"
            /\ UNCHANGED <<listeners, connection, socket, teardown>>
       ELSE IF connection = "disposed" /\ sent = "throws"
       THEN /\ teardown' = Append(teardown, "sendNotification")
            /\ raised' = "ConnectionError: Connection is disposed"
            /\ UNCHANGED <<listeners, connection, socket>>
       ELSE Teardown(Append(teardown, "sendNotification"), again)
    /\ UNCHANGED <<status, verdict, promise, prompts,
                   connecting, stateHandler,
                   kind, target, beans, result, conts, timer, deadline, outcome,
                   value, preCount, args, found, request, timeout, calls,
                   matched, accepted, ignored, now, emitted>>

\* a client is constructed, connected and disconnected while a consumer
\* subscribes and a start runs on the live connection
NextLifecycle ==
    \/ \E t \in Timeouts : Connect(t)
    \/ SocketConnect
    \/ ConnectTimerFires
    \/ \E again \in LibraryOutcomes : Disconnect(again)
    \/ \E sent \in LibraryOutcomes, again \in LibraryOutcomes :
           ShutdownServer(sent, again)
    \/ \E name \in EventNames, u \in Users : On(name, u)
    \/ \E t \in Timeouts :
           connection = "listening" /\ Call(1, "startServerSync", "wfly", t)
    \/ connection = "listening" /\ ResponseResolves(1)
    \/ ResponseRejects(1)
    \/ TimerFires(1)
    \/ \E p \in Payloads("serverStateChanged") :
           connection = "listening" /\ Emit("serverStateChanged", p)
    \/ (connecting.timer = "armed" => now < connecting.deadline) /\ Tick

SpecLifecycle == InitClient /\ [][NextLifecycle]_vars

\* ------------------------------------------- RSPClient.removeListener
\* a consumer registers a function it has already registered: emitter.on adds
\* it once more
OnAgain(name, u) ==
    /\ IsRegistered(name, UserListener(u))
    /\ Count(listeners[name], UserListener(u)) < MaxRegistrations
    /\ listeners' = [listeners EXCEPT ![name] = Append(@, UserListener(u))]
    /\ UNCHANGED <<status, verdict, promise, prompts,
                   kind, target, beans, result, conts, timer, deadline,
                   outcome, value, preCount, args, found, request, connection,
                   socket, teardown, raised, connecting, stateHandler,
                   timeout, calls, matched, accepted, ignored, now, emitted>>

\* faulty variant: removing a function that is not registered is an error
ClientRemoveListenerThrows(name, u) ==
    /\ listeners' = [listeners EXCEPT
                         ![name] = RemoveListener(@, UserListener(u))]
    /\ raised' = IF IsRegistered(name, UserListener(u)) THEN raised
                 ELSE "Error: listener not registered"
    /\ UNCHANGED <<status, verdict, promise, prompts,
                   kind, target, beans, result, conts, timer, deadline,
                   outcome, value, preCount, args, found, request, connection,
                   socket, teardown, connecting, stateHandler,
                   timeout, calls, matched, accepted, ignored, now, emitted>>

\* removeListener(eventName, listener): emitter.removeListener
ClientRemoveListener(name, u) ==
    /\ listeners' = [listeners EXCEPT
                         ![name] = RemoveListener(@, UserListener(u))]
    /\ UNCHANGED <<status, verdict, promise, prompts,
                   kind, target, beans, result, conts, timer, deadline,
                   outcome, value, preCount, args, found, request, connection,
                   socket, teardown, raised, connecting, stateHandler,
                   timeout, calls, matched, accepted, ignored, now, emitted>>

\* the event names consumers subscribe to here: the one a delete watches
\* and one no operation in flight watches
ConsumerEvents == {"serverRemoved", "serverAdded"}

\* consumers subscribe, subscribe again and unsubscribe while a delete and
\* its timer come and go
NextUnsubscribe ==
    \/ \E name \in ConsumerEvents, u \in Consumers :
          /\ \A v \in Consumers : v < u => IsRegistered(name, UserListener(v))
          /\ On(name, u)
    \/ \E name \in ConsumerEvents, u \in Users : OnAgain(name, u)
    \/ \E name \in ConsumerEvents, u \in Consumers : ClientRemoveListener(name, u)
    \/ \E t \in Timeouts : Call(1, "deleteServerSync", "wfly", t)
    \/ ResponseResolves(1)
    \/ \E p \in Payloads("serverRemoved") : Emit("serverRemoved", p)
    \/ TimerFires(1)
    \/ Tick

SpecUnsubscribe == Init /\ [][NextUnsubscribe]_vars

\* --------------------------------------- RSPClient.removeAllListeners
\* faulty variant: the event name is not passed on to the emitter
ClientRemoveAllListenersOfAllNames(name) ==
    /\ listeners' = [n \in EventNames |-> <<>>]
    /\ UNCHANGED <<status, verdict, promise, prompts,
                   kind, target, beans, result, conts, timer, deadline,
                   outcome, value, preCount, args, found, request, connection,
                   socket, teardown, raised, connecting, stateHandler,
                   timeout, calls, matched, accepted, ignored, now, emitted>>

\* removeAllListeners(eventName): emitter.removeAllListeners(eventName)
ClientRemoveAllListeners(name) ==
    /\ listeners' = [listeners EXCEPT ![name] = <<>>]
    /\ UNCHANGED <<status, verdict, promise, prompts,
                   kind, target, beans, result, conts, timer, deadline,
                   outcome, value, preCount, args, found, request, connection,
                   socket, teardown, raised, connecting, stateHandler,
                   timeout, calls, matched, accepted, ignored, now, emitted>>

\* consumers subscribe and clear event names while a delete and a start,
\* which watch different event names, come and go
NextRemoveAll ==
    \/ \E name \in EventNames, u \in Users : On(name, u)
    \/ \E name \in EventNames : ClientRemoveAllListeners(name)
    \/ \E k \in {"deleteServerSync", "startServerSync"}, t \in Timeouts :
          Call(1, k, "wfly", t)
    \/ ResponseResolves(1)
    \/ ResponseRejects(1)
    \/ \E name \in EventNames : \E p \in Payloads(name) : Emit(name, p)
    \/ TimerFires(1)
    \/ Tick

SpecRemoveAll == Init /\ [][NextRemoveAll]_vars

\* ------------------------------------------------- util/StatusSeverity
\* Protocol.Status, by its severity; a severity is a JavaScript number and
\* the operands of & are taken as two's-complement integers
Severities == (0 - MaxSeverity)..MaxSeverity
Statuses == [severity : Severities]

\* x & b for a bitmask b >= 0, bit by bit from the lowest
RECURSIVE BitAnd(_, _)
BitAnd(x, b) ==
    IF b = 0 THEN 0
    ELSE (x % 2) * (b % 2) + 2 * BitAnd(x \div 2, b \div 2)

\* faulty variant: the severity is compared with the bitmask
TestSeverityEquals(bitmask, st) == st.severity = bitmask

\* testSeverity: (status.severity & bitmask) === bitmask
TestSeverity(bitmask, st) == BitAnd(st.severity, bitmask) = bitmask

isOk(st) == st.severity = 0
isInfo(st) == TestSeverity(1, st)
isWarning(st) == TestSeverity(2, st)
isError(st) == TestSeverity(4, st)
isCancel(st) == TestSeverity(8, st)

SeverityPredicates == {"isOk", "isInfo", "isWarning", "isError", "isCancel"}

\* the value the named predicate returns for a status
Returned(is, st) ==
    CASE is = "isOk" -> isOk(st)
      [] is = "isInfo" -> isInfo(st)
      [] is = "isWarning" -> isWarning(st)
      [] is = "isError" -> isError(st)
      [] is = "isCancel" -> isCancel(st)

\* a caller classifies the status it holds
Classify(is) ==
    /\ status \in Statuses
    /\ verdict' = [is |-> is, value |-> Returned(is, status)]
    /\ UNCHANGED <<status, promise, prompts, listeners, kind, target, beans,
                   result, conts, timer, deadline, outcome, value, preCount,
                   args, found, request, connection, socket, teardown,
                   raised, connecting, stateHandler, timeout, calls,
                   matched, accepted, ignored, now, emitted>>

\* a caller receives another status
Receive(st) ==
    /\ status \in Statuses
    /\ status' = st
    /\ verdict' = NoVerdict
    /\ UNCHANGED <<promise, prompts, listeners, kind, target, beans, result,
                   conts, timer, deadline, outcome, value, preCount, args,
                   found, request, connection, socket, teardown, raised,
                   connecting, stateHandler, timeout, calls, matched,
                   accepted, ignored, now, emitted>>

InitSeverity ==
    /\ NoCalls
    /\ status \in Statuses
    /\ connection = "listening"
    /\ socket = "connected"
    /\ teardown = <<>>
    /\ raised = "none"
    /\ connecting = Connected

NextSeverity ==
    \/ \E is \in SeverityPredicates : Classify(is)
    \/ \E st \in Statuses : Receive(st)

SpecSeverity == InitSeverity /\ [][NextSeverity]_vars

\* ------------------------------------------------ util/Capabilities
\* what a consumer hands to the acceptor, and the error it hands to the
\* rejector
Answers == {"yes", "no"}
Errors == {"cancelled"}

\* a string prompt as received: nothing supplied by the consumer, the
\* request not answered
Prompted == [supplied |-> "", state |-> "waiting", answer |-> ""]

\* the request of a prompt is answered when the promise its handler returned
\* settles: with the value of the promise, or with its error
Answered(q, pr) ==
    IF q.state = "waiting" /\ pr.state # "pending"
    THEN [q EXCEPT !.state = pr.state, !.answer = pr.value]
    ELSE q

\* resolve(s) / reject(e) of the promise created in listenToClientCapabilities
SettlePrompt(pr, state, v) ==
    IF pr.state = "pending" THEN [state |-> state, value |-> v] ELSE pr

\* handler1: an inbound string-prompt request is emitted with the acceptor
\* and the rejector, and the handler returns the promise
Handler1 ==
    /\ Len(prompts) < MaxPrompts
    /\ prompts' = Append(prompts, Answered(Prompted, promise))
    /\ UNCHANGED <<status, verdict, promise, listeners, kind, target, beans,
                   result, conts, timer, deadline, outcome, value, preCount,
                   args, found, request, connection, socket, teardown,
                   raised, connecting, stateHandler, timeout, calls,
                   matched, accepted, ignored, now, emitted>>

\* the consumer's listener answers prompt i through the acceptor
Acceptor(i, s) ==
    /\ i \in 1..Len(prompts)
    /\ prompts[i].supplied = ""
    /\ promise' = SettlePrompt(promise, "resolved", s)
    /\ prompts' = [j \in 1..Len(prompts) |->
                       Answered(IF j = i
                                THEN [prompts[j] EXCEPT !.supplied = s]
                                ELSE prompts[j],
                                promise')]
    /\ UNCHANGED <<status, verdict, listeners, kind, target, beans, result,
                   conts, timer, deadline, outcome, value, preCount, args,
                   found, request, connection, socket, teardown, raised,
                   connecting, stateHandler, timeout, calls, matched,
                   accepted, ignored, now, emitted>>

\* the consumer's listener refuses prompt i through the rejector
Rejector(i, e) ==
    /\ i \in 1..Len(prompts)
    /\ prompts[i].supplied = ""
    /\ promise' = SettlePrompt(promise, "rejected", e)
    /\ prompts' = [j \in 1..Len(prompts) |->
                       Answered(IF j = i
                                THEN [prompts[j] EXCEPT !.supplied = e]
                                ELSE prompts[j],
                                promise')]
    /\ UNCHANGED <<status, verdict, listeners, kind, target, beans, result,
                   conts, timer, deadline, outcome, value, preCount, args,
                   found, request, connection, socket, teardown, raised,
                   connecting, stateHandler, timeout, calls, matched,
                   accepted, ignored, now, emitted>>

NextPrompt ==
    \/ Handler1
    \/ \E i \in 1..MaxPrompts, s \in Answers : Acceptor(i, s)
    \/ \E i \in 1..MaxPrompts, e \in Errors : Rejector(i, e)

SpecPrompt == Init /\ [][NextPrompt]_vars

\* ------------------------------------- consumers beside correlated calls
\* a consumer subscribes while starts and stops, which watch the event name
\* it listens to, succeed, fail and time out
NextConsumers ==
    \/ \E name \in {"serverStateChanged", "serverAdded"}, u \in Users :
          On(name, u)
    \/ \E o \in Ops, k \in {"startServerSync", "stopServerSync"},
          id \in Ids, t \in Timeouts : Call(o, k, id, t)
    \/ \E o \in Ops : ResponseResolves(o)
    \/ \E o \in Ops : ResponseRejects(o)
    \/ \E p \in Payloads("serverStateChanged") :
          Emit("serverStateChanged", p)
    \/ \E o \in Ops : TimerFires(o)
    \/ Tick

SpecConsumers == Init /\ [][NextConsumers]_vars

\* -------------------------------------------------------------- fairness
\* a correlated operation (call 1) and a plain request (call 2) side by side
NextFair ==
    \/ \E k \in Kinds, id \in Ids, t \in Timeouts : Call(1, k, id, t)
    \/ \E n \in 0..1 : BeansResolve(1, n)
    \/ BeansReject(1)
    \/ ResponseResolves(1)
    \/ ResponseRejects(1)
    \/ \E t \in Timeouts : SimpleCall(2, t)
    \/ \E r \in Responses : SimpleResolves(2, r)
    \/ SimpleRejects(2)
    \/ \E o \in Ops : TimerFires(o)
    \/ \E name \in EventNames : \E p \in Payloads(name) : Emit(name, p)
    \/ Tick

\* the event loop runs the callback of a timer that is due, and time passes
SpecFair ==
    /\ Init
    /\ [][NextFair]_vars
    /\ WF_vars(Tick)
    /\ \A o \in Ops : WF_vars(TimerFires(o))

\* ----------------------------------------------------------------- claims
\* index of the first occurrence of c in a call trace, 0 when absent
RECURSIVE FirstIndex(_, _, _)
FirstIndex(seq, c, i) ==
    IF i > Len(seq) THEN 0
    ELSE IF seq[i] = c THEN i ELSE FirstIndex(seq, c, i + 1)

Called(o) == kind[o] # "none"
Watched(o) == EventOf(kind[o])
Subscribed(o) == IsRegistered(Watched(o), Handler(o))

\* no other call watches the event name of call o
Alone(o) == \A q \in Ops \ {o} : ~Called(q) \/ Watched(q) # Watched(o)

\* C1: once a correlated operation has rejected with its timeout error, the
\* listener it registered is no longer registered
C1_TimeoutRemovesListener ==
    \A o \in Ops : outcome[o] = "timeout" => ~Subscribed(o)

\* C2: once Common.sendRequestSync (here through deleteServerSync) has
\* resolved, its handler is no longer registered and the listener count of
\* the event name is back to its value before the call
C2_SuccessRemovesHandler ==
    \A o \in Ops :
        (kind[o] = "deleteServerSync" /\ outcome[o] = "success") =>
            /\ ~Subscribed(o)
            /\ Alone(o) => Len(listeners[Watched(o)]) = preCount[o]

C4_RejectionUnsubscribesAndPropagates ==
    \A o \in Ops :
        result[o] = "rejected" => (~Subscribed(o) /\ outcome[o] # "pending")

\* C5: the promise of a correlated operation settles once: a settled outcome
\* and its value never change, whatever is called afterwards
C5_SingleOutcome ==
    [][\A o \in Ops :
          outcome[o] \in {"success", "timeout"} =>
              (outcome'[o] = outcome[o] /\ value'[o] = value[o])]_vars

\* a call on which both reject and resolve have been called
C5_Witness ==
    \E o \in Ops :
        /\ outcome[o] = "timeout"
        /\ Count(calls[o], "reject") = 1
        /\ Count(calls[o], "resolve") >= 1

\* C6: a call registers its listener before it sends a request, and the
\* listener stays registered until a success continuation removes it
C6_SubscribeBeforeSend ==
    \A o \in Ops :
        Called(o) =>
            /\ FirstIndex(calls[o], "prependListener", 1) > 0
            /\ FirstIndex(calls[o], "prependListener", 1)
                   < FirstIndex(calls[o], "sendRequest", 1)
            /\ Count(calls[o], "removeListener") = 0 => Subscribed(o)

\* a call whose request is in flight with the listener in place
C6_Witness ==
    \E o \in Ops : result[o] = "pending" /\ Subscribed(o) /\ matched[o]

C8_NonMatchingIgnored ==
    [][\A o \in Ops :
          ignored'[o] = ignored[o] + 1 =>
              /\ outcome'[o] = outcome[o]
              /\ value'[o] = value[o]
              /\ timer'[o] = timer[o]
              /\ deadline'[o] = deadline[o]
              /\ conts'[o] = conts[o]
              /\ matched'[o] = matched[o]
              /\ IsRegistered(Watched(o), Handler(o))']_vars

\* a call that ignored an event and was then resolved by a matching one
C8_Witness ==
    \E o \in Ops :
        /\ ignored[o] > 0
        /\ matched[o]
        /\ outcome[o] = "success"

\* C9: one call runs its success continuation at most once and calls
\* removeListener at most once
C9_AtMostOneUnsubscribe ==
    \A o \in Ops :
        /\ Count(calls[o], "removeListener") <= 1
        /\ Count(calls[o], "resolve") <= 1

\* C10: a start, stop or create call that has resolved registered one
\* listener and removed it: the listener count is back to its pre-call value
C10_ListenerRemovedOnSuccess ==
    \A o \in Ops :
        (/\ kind[o] \in {"startServerSync", "stopServerSync",
                        "createServerFromPath", "createServerFromBean"}
         /\ outcome[o] = "success") =>
            /\ Count(calls[o], "prependListener") = 1
            /\ Count(calls[o], "removeListener") >= 1
            /\ ~Subscribed(o)
            /\ Alone(o) => Len(listeners[Watched(o)]) = preCount[o]

\* a create-from-path call that resolved while it was the only call
C10_Witness ==
    \E o \in Ops :
        /\ kind[o] = "createServerFromPath"
        /\ outcome[o] = "success"
        /\ Alone(o)

\* C11: a startServerSync call that has resolved did so with a state change of
\* its own server id in state STARTED, a stopServerSync call with one of its
\* own server id in state STOPPED; no other state and no other id resolves it
C11_ResolvesOnlyOnOwnState ==
    \A o \in Ops :
        /\ (kind[o] = "startServerSync" /\ outcome[o] = "success") =>
               (value[o].id = target[o] /\ value[o].state = STARTED)
        /\ (kind[o] = "stopServerSync" /\ outcome[o] = "success") =>
               (value[o].id = target[o] /\ value[o].state = STOPPED)
        /\ (kind[o] \in {"startServerSync", "stopServerSync"}
                /\ outcome[o] # "success") => value[o] = Nil

\* a stop call whose listener rejected a state change and which then resolved
\* with STOPPED
C11_Witness ==
    \E o \in Ops :
        /\ kind[o] = "stopServerSync"
        /\ ignored[o] >= 1
        /\ outcome[o] = "success"
        /\ value[o].state = STOPPED

\* C12: the step in which the timer of one call expires rejects that call and
\* leaves every other call as it was: its outcome, value, timer, deadline,
\* queued reactions and registration
C12_ExpiryTouchesOnlyItsCall ==
    [][\A o \in Ops :
          (timer[o] = "armed" /\ timer'[o] = "fired") =>
              /\ outcome'[o] = Settle(outcome[o], "timeout")
              /\ \A q \in Ops \ {o} :
                    /\ outcome'[q] = outcome[q]
                    /\ value'[q] = value[q]
                    /\ timer'[q] = timer[q]
                    /\ deadline'[q] = deadline[q]
                    /\ conts'[q] = conts[q]
                    /\ result'[q] = result[q]
                    /\ (Called(q) /\ Subscribed(q)) =>
                           IsRegistered(Watched(q), Handler(q))']_vars

\* two calls in flight on one event name when the timer of one expired: the
\* other is still pending and subscribed, its response in, an event to come
C12_Witness ==
    \E o \in Ops, q \in Ops :
        /\ o # q
        /\ Called(o) /\ Called(q)
        /\ Watched(o) = Watched(q)
        /\ outcome[o] = "timeout"
        /\ outcome[q] = "pending"
        /\ result[q] = "resolved"
        /\ Subscribed(q)
        /\ emitted < MaxEvents

C16_EmptyDiscoveryFailsLocally ==
    \A o \in Ops :
        beans[o] = "empty" =>
            /\ outcome[o] \notin {"pending", "timeout"}
            /\ Count(calls[o], "sendRequest") = 1

\* C18: the response of a plain request that is still pending resolves it
\* with a response of the channel and cancels its timer; the expiry of its
\* timer rejects it with the timeout error; a response that arrives after
\* that changes neither the outcome nor the value
C18_SimpleRequestOutcome ==
    [][\A o \in Ops :
          kind[o] = "sendSimpleRequest" =>
              /\ (result[o] = "pending" /\ result'[o] = "resolved") =>
                     IF outcome[o] = "pending"
                     THEN /\ outcome'[o] = "success"
                          /\ value'[o] \in Responses
                          /\ timer'[o] = "cleared"
                     ELSE /\ outcome'[o] = outcome[o]
                          /\ value'[o] = value[o]
              /\ (timer[o] = "armed" /\ timer'[o] = "fired") =>
                     outcome'[o] = "timeout"]_vars

\* a plain request that timed out and whose response arrived afterwards
C18_Witness ==
    \E o \in Ops :
        /\ kind[o] = "sendSimpleRequest"
        /\ outcome[o] = "timeout"
        /\ result[o] = "resolved"
        /\ value[o] = Nil
        /\ calls[o] = <<"setTimeout", "sendRequest", "reject",
                        "clearTimeout", "resolve">>

\* C19: once the channel has rejected a plain request, the call has failed
\* with that transport error, its timer is cancelled and the request has
\* been sent once
C19_SimpleRejectionSurfaced ==
    \A o \in Ops :
        (kind[o] = "sendSimpleRequest" /\ result[o] = "rejected") =>
            /\ outcome[o] = "rejected"
            /\ timer[o] = "cleared"
            /\ Count(calls[o], "sendRequest") = 1

C15_PathWithoutIdRejected ==
    \A o \in Ops :
        /\ kind[o] \in {"createServerSync", "createServerAsync"} =>
               /\ outcome[o] = "idRequired"
               /\ calls[o] = <<>>
               /\ timer[o] = "none"
               /\ result[o] = "undefined"
               /\ beans[o] = "none"
               /\ \A n \in EventNames : ~IsRegistered(n, Handler(o))
        /\ kind[o] \in {"createServerFromPath", "createServerFromPathAsync"} =>
               target[o] # ""
        /\ outcome[o] = "idRequired" =>
               kind[o] \in {"createServerSync", "createServerAsync"}

\* both entry points have rejected a path without an id while nothing is
\* registered, sent or armed
C15_Witness ==
    /\ kind[1] = "createServerSync"
    /\ kind[2] = "createServerAsync"
    /\ \A o \in Ops : outcome[o] = "idRequired"
    /\ \A n \in EventNames : listeners[n] = <<>>

\* C17: once the timer of a ServerLauncher start/stop call has expired, the
\* call has been rejected with its timeout error
C17_LauncherTimeoutRejects ==
    \A o \in Ops :
        (kind[o] \in LauncherKinds /\ timer[o] = "fired") =>
            outcome[o] = "timeout"

\* in a sequence of listeners, no consumer listener comes before a listener
\* of a correlated operation
RECURSIVE HandlersFirst(_)
HandlersFirst(seq) ==
    \/ Len(seq) <= 1
    \/ /\ (Head(seq)[1] = "user" => Head(Tail(seq))[1] = "user")
       /\ HandlersFirst(Tail(seq))

\* C20: whatever event is dispatched under whatever name, every listener of
\* a correlated operation is invoked before every listener registered
\* through an on<Event> method
C20_PrependedInvokedFirst ==
    \A name \in EventNames :
        /\ HandlersFirst(listeners[name])
        /\ \A p \in Payloads(name) :
              HandlersFirst(Dispatch(listeners[name], p, Machine).order)

\* a consumer listener registered before two correlated operations that are
\* in flight on its event name: a dispatch invokes all three
C20_Witness ==
    \E name \in EventNames : \E p \in Payloads(name) :
        /\ Len(listeners[name]) = 3
        /\ listeners[name][3] = UserListener(1)
        /\ preCount[1] = 1
        /\ preCount[2] = 2
        /\ Dispatch(listeners[name], p, Machine).order = listeners[name]

\* the listeners of a sequence are in the order they were registered in:
\* correlated operations by call number, consumers by consumer number
InRegistrationOrder(seq) ==
    \A i \in 1..Len(seq), j \in 1..Len(seq) :
        (i < j /\ seq[i][1] = seq[j][1]) => seq[i][2] < seq[j][2]

\* the order Node's EventEmitter keeps: the listeners of correlated
\* operations latest first, then the consumers' listeners earliest first
LatestOperationFirst(seq) ==
    \A i \in 1..Len(seq), j \in 1..Len(seq) :
        i < j => CASE seq[i][1] = "handler" /\ seq[j][1] = "handler" ->
                          seq[i][2] > seq[j][2]
                   [] seq[i][1] = "user" /\ seq[j][1] = "user" ->
                          seq[i][2] < seq[j][2]
                   [] OTHER -> seq[i][1] = "handler"

C22_ThrowingListenerIsolated ==
    \A name \in EventNames : \A p \in Payloads(name) :
        LET m == Dispatch(listeners[name], p, Machine) IN
        /\ m.order = listeners[name]
        /\ ~m.thrown

\* C23: a createServerFromBean or createServerFromBeanAsync call made without
\* an id sends a create request whose id is the name of the candidate, and
\* the listener of the synchronous variant accepts exactly the serverAdded
\* events with that id
C23_BeanNameIsServerId ==
    \A o \in Ops :
        (/\ kind[o] \in {"createServerFromBean", "createServerFromBeanAsync"}
         /\ args[o].id = "") =>
            /\ request[o].type = "createServer"
            /\ request[o].params.id = args[o].bean.name
            /\ kind[o] = "createServerFromBean" =>
                   /\ \A p \in Payloads("serverAdded") :
                          Matches(o, p) <=> p.id = args[o].bean.name
                   /\ outcome[o] = "success" => value[o].id = args[o].bean.name

\* a create from a bean named 'foo', called without an id, resolved by the
\* serverAdded event of 'foo'
C23_Witness ==
    \E o \in Ops :
        /\ kind[o] = "createServerFromBean"
        /\ args[o].id = ""
        /\ args[o].bean.name = "foo"
        /\ ignored[o] = 1
        /\ outcome[o] = "success"
        /\ value[o].id = "foo"

\* the candidate a create call builds its request from: the bean it was
\* handed, or the first one discovery found
Candidate(o) ==
    IF kind[o] \in {"createServerFromBean", "createServerFromBeanAsync"}
    THEN args[o].bean ELSE found[o][1]

\* C24: the attribute map of every create request has 'server.home.dir' set
\* to the location of the candidate, whatever the caller supplied for that
\* key; it has 'server.home.file' set to that location when the category of
\* the candidate is MINISHIFT or CDK, and for any other category it has a
\* 'server.home.file' entry only if the caller supplied one, with the
\* caller's value
C24_HomeAttributes ==
    \A o \in Ops :
        request[o].type = "createServer" =>
            LET atts == request[o].params.attributes
                given == args[o].attributes
                bean == Candidate(o) IN
            /\ "server.home.dir" \in DOMAIN atts
            /\ atts["server.home.dir"] = bean.location
            /\ IF bean.typeCategory \in {"MINISHIFT", "CDK"}
               THEN /\ "server.home.file" \in DOMAIN atts
                    /\ atts["server.home.file"] = bean.location
               ELSE /\ "server.home.file" \in DOMAIN atts
                           <=> "server.home.file" \in DOMAIN given
                    /\ "server.home.file" \in DOMAIN given
                           => atts["server.home.file"] = given["server.home.file"]

\* a create from a path whose caller supplied both keys and whose discovery
\* found a CDK first: the request carries the location of the CDK under both
C24_Witness ==
    \E o \in Ops :
        /\ kind[o] = "createServerFromPathAsync"
        /\ request[o].type = "createServer"
        /\ Len(found[o]) = 2
        /\ found[o][1].typeCategory = "CDK"
        /\ found[o][1].location = "/opt/cdk"
        /\ DOMAIN args[o].attributes = AttributeKeys
        /\ request[o].params.attributes["server.home.dir"] = "/opt/cdk"
        /\ request[o].params.attributes["server.home.file"] = "/opt/cdk"
        /\ request[o].params.attributes["vm.install.path"] = "/user"

\* the asynchronous variants
AsyncVariants == AsyncKinds \cup {"createServerFromPathAsync"}

\* the request the synchronous counterpart of call o sends for the same
\* arguments (and, from a path, the same discovery answer)
SyncRequest(o) ==
    CASE kind[o] = "createServerFromBeanAsync" ->
             FirstRequest("createServerFromBean", args[o])
      [] kind[o] = "createServerFromPathAsync" ->
             IF found[o] = <<>> THEN FirstRequest("createServerFromPath", args[o])
             ELSE CreateServerFromPathRequest(args[o], found[o])
      [] kind[o] = "deleteServerAsync" -> FirstRequest("deleteServerSync", args[o])
      [] kind[o] = "startServerAsync" -> FirstRequest("startServerSync", args[o])
      [] OTHER -> FirstRequest("stopServerSync", args[o])

\* call o takes part in a step: it is made, its request is answered or
\* rejected, or its timer fires
Acts(o) ==
    \/ kind'[o] # kind[o]
    \/ result'[o] # result[o]
    \/ beans'[o] # beans[o]
    \/ timer'[o] # timer[o]
    \/ outcome'[o] # outcome[o]

\* C25: no step of an asynchronous variant changes the listener table; its
\* listener is registered under no event name; the request it has sent is
\* the one its synchronous counterpart sends; and when it has resolved, it
\* has resolved with the response of its own request
C25_AsyncNeverSubscribes ==
    [][\A o \in Ops :
          kind'[o] \in AsyncVariants =>
              /\ Acts(o) => listeners' = listeners
              /\ \A name \in EventNames : ~IsRegistered(name, Handler(o))'
              /\ request'[o] = SyncRequest(o)'
              /\ outcome'[o] = "success" =>
                     /\ result'[o] = "resolved"
                     /\ value'[o] \in Responses
                     /\ matched'[o] = FALSE]_vars

\* an asynchronous create from a path has resolved with the response of its
\* create request while a consumer listens for serverAdded and events came in
C25_Witness ==
    \E o \in Ops :
        /\ kind[o] = "createServerFromPathAsync"
        /\ request[o].type = "createServer"
        /\ outcome[o] = "success"
        /\ value[o] \in Responses
        /\ listeners["serverAdded"] = <<UserListener(1)>>
        /\ emitted = MaxEvents

\* the errors of the json-rpc library the client throws or lets through
ConnectionErrors ==
    {"ConnectionError: Connection not initialized",
     "ConnectionError: Connection is disposed"}

\* the calls of a teardown, in the order disconnect makes them
TeardownCalls == <<"removeAllListeners", "dispose", "end", "destroy">>

\* C26: disconnect on a client that never established a connection throws a
\* ConnectionError 'Connection not initialized' and tears nothing down: no
\* listener is removed, nothing is disposed, the socket is not touched
C26_DisconnectWithoutConnectionThrows ==
    [][\A again \in LibraryOutcomes :
          connection = "undefined" /\ Disconnect(again) =>
              /\ raised' = "ConnectionError: Connection not initialized"
              /\ listeners' = listeners
              /\ teardown' = teardown
              /\ connection' = connection
              /\ socket' = socket]_vars

\* disconnect has thrown on a client whose socket is still connecting, and
\* the consumer's listener is still registered
C26_Witness ==
    /\ connection = "undefined"
    /\ socket = "connecting"
    /\ raised = "ConnectionError: Connection not initialized"
    /\ teardown = <<>>
    /\ listeners["serverAdded"] = <<UserListener(1)>>

\* C27: disconnect on a connection an earlier disconnect has disposed throws
\* a ConnectionError and does not end or destroy the socket a second time
C27_SecondDisconnectThrows ==
    [][\A again \in LibraryOutcomes :
          connection = "disposed" /\ Disconnect(again) =>
              /\ raised' \in ConnectionErrors
              /\ Count(teardown', "end") = Count(teardown, "end")
              /\ Count(teardown', "destroy") = Count(teardown, "destroy")]_vars

\* C28: disconnect on a connected client leaves no listener under any event
\* name, disposes the connection exactly once, then ends the socket, then
\* destroys it, and throws nothing
C28_DisconnectTearsDownInOrder ==
    [][\A again \in LibraryOutcomes :
          connection = "listening" /\ Disconnect(again) =>
              /\ \A name \in EventNames : listeners'[name] = <<>>
              /\ teardown' = teardown \o TeardownCalls
              /\ Count(teardown', "dispose") = 1
              /\ connection' = "disposed"
              /\ socket' = "destroyed"
              /\ raised' = "none"]_vars

\* a start is pending with its timer armed, and the disconnect has removed
\* its listener along with every other one
C28_Witness ==
    /\ teardown = TeardownCalls
    /\ connection = "disposed"
    /\ kind[1] = "startServerSync"
    /\ outcome[1] = "pending"
    /\ timer[1] = "armed"
    /\ \A name \in EventNames : listeners[name] = <<>>

\* C29: shutdownServer on a connected client sends exactly one shutdown
\* notification and runs the whole disconnect after it
C29_ShutdownNotifiesThenDisconnects ==
    [][\A sent \in LibraryOutcomes, again \in LibraryOutcomes :
          connection = "listening" /\ ShutdownServer(sent, again) =>
              /\ teardown' = Append(teardown, "sendNotification")
                                 \o TeardownCalls
              /\ Count(teardown', "sendNotification")
                     = Count(teardown, "sendNotification") + 1
              /\ connection' = "disposed"]_vars

\* the server was shut down from a connected client
C29_Witness ==
    /\ teardown = <<"sendNotification">> \o TeardownCalls
    /\ connection = "disposed"
    /\ socket = "destroyed"
    /\ connecting.outcome = "resolved"

\* the listeners of seq other than l, in their order
Others(seq, l) == SelectSeq(seq, LAMBDA x : x # l)

\* what every removeListener call of a consumer does: it throws nothing,
\* touches no other event name, keeps the other listeners in their order,
\* and is a no-op when the function is not registered
RemovesOneQuietly(name, l) ==
    /\ raised' = raised
    /\ \A n \in EventNames \ {name} : listeners'[n] = listeners[n]
    /\ Others(listeners'[name], l) = Others(listeners[name], l)
    /\ ~IsRegistered(name, l) => listeners' = listeners

\* the function a delete hands to removeListener was never registered: the
\* step that makes the call leaves every listener list as it was
UnregisteredPredicateIsNoOp ==
    (/\ kind[1] = "deleteServerSync"
     /\ Count(calls'[1], "removeListener") > Count(calls[1], "removeListener"))
        => listeners' = listeners

\* C30 as stated: removeListener of a function not registered under the
\* event name raises nothing and changes no listener list, and after one
\* removal a second removal of the same function changes nothing
C30_RemoveTwiceIsRemoveOnce ==
    [][/\ \A name \in EventNames, u \in Consumers :
              ClientRemoveListener(name, u) =>
                  /\ RemovesOneQuietly(name, UserListener(u))
                  /\ RemoveListener(listeners'[name], UserListener(u))
                         = listeners'[name]
       /\ UnregisteredPredicateIsNoOp]_vars

\* C30 amended: removeListener of a function not registered under the event
\* name raises nothing and changes no listener list; a call removes exactly
\* one registration of a registered function, the most recent one, so a
\* second removal changes nothing only when it was registered once
C30_RemovesOneRegistration ==
    [][/\ \A name \in EventNames, u \in Consumers :
              ClientRemoveListener(name, u) =>
                  /\ RemovesOneQuietly(name, UserListener(u))
                  /\ IsRegistered(name, UserListener(u)) =>
                         /\ Count(listeners'[name], UserListener(u))
                                = Count(listeners[name], UserListener(u)) - 1
                         /\ listeners'[name]
                                = RemoveListener(listeners[name],
                                                 UserListener(u))
                  /\ Count(listeners[name], UserListener(u)) <= 1 =>
                         RemoveListener(listeners'[name], UserListener(u))
                             = listeners'[name]
       /\ UnregisteredPredicateIsNoOp]_vars

\* the first consumer has unsubscribed from serverRemoved, which only an
\* unsubscription leaves to the second consumer and the pending delete,
\* while it is still registered twice under serverAdded
C30_Witness ==
    /\ listeners["serverRemoved"] = <<Handler(1), UserListener(2)>>
    /\ Count(listeners["serverAdded"], UserListener(1)) = 2
    /\ outcome[1] = "success"

\* C31: removeAllListeners(eventName) leaves no listener under that event
\* name, the listener of a correlated operation in flight included, and
\* leaves the listeners of every other event name as they were
C31_RemoveAllListenersOfOneName ==
    [][\A name \in EventNames :
          ClientRemoveAllListeners(name) =>
              /\ listeners'[name] = <<>>
              /\ \A o \in Ops : ~IsRegistered(name, Handler(o))'
              /\ \A n \in EventNames \ {name} :
                     listeners'[n] = listeners[n]]_vars

\* a delete is in flight with its timer armed and its listener is gone with
\* the rest of serverRemoved, while the consumer is still subscribed to
\* serverAdded
C31_Witness ==
    /\ kind[1] = "deleteServerSync"
    /\ outcome[1] = "pending"
    /\ result[1] = "pending"
    /\ timer[1] = "armed"
    /\ listeners["serverRemoved"] = <<>>
    /\ listeners["serverAdded"] = <<UserListener(1)>>

\* bit number i (from 0) of the two's-complement form of severity x
Bit(x, i) == (x \div (2 ^ i)) % 2

\* what the predicate named in the verdict is to return for the status
Expected(is, st) ==
    CASE is = "isOk" -> st.severity = 0
      [] is = "isInfo" -> Bit(st.severity, 0) = 1
      [] is = "isWarning" -> Bit(st.severity, 1) = 1
      [] is = "isError" -> Bit(st.severity, 2) = 1
      [] is = "isCancel" -> Bit(st.severity, 3) = 1

\* C32: isOk holds exactly for severity 0 and isInfo, isWarning, isError,
\* isCancel exactly when the bit of 1, 2, 4, 8 is set; isOk excludes the
\* other four; severity 4|8 is error and cancel and nothing else
C32_SeverityByBitmask ==
    status \in Statuses =>
        /\ \A is \in SeverityPredicates :
               Returned(is, status) = Expected(is, status)
        /\ verdict # NoVerdict =>
               verdict.value = Expected(verdict.is, status)
        /\ isOk(status) =>
               ~(isInfo(status) \/ isWarning(status) \/ isError(status)
                     \/ isCancel(status))
        /\ status.severity = 12 =>
               /\ isError(status) /\ isCancel(status)
               /\ ~isOk(status) /\ ~isInfo(status) /\ ~isWarning(status)

\* a status of severity 4|8 was classified as a cancel
C32_Witness ==
    /\ status = [severity |-> 12]
    /\ verdict = [is |-> "isCancel", value |-> TRUE]

\* C33: while the discovery request of a createServerFromPath is pending, a
\* serverAdded event with the requested id raises nothing in the dispatch
\* and is kept by the operation's listener for the response of the create
\* request
C33_EarlyEventIsCached ==
    \A o \in Ops :
        (/\ kind[o] = "createServerFromPath"
         /\ beans[o] = "pending"
         /\ IsRegistered("serverAdded", Handler(o))) =>
            \A p \in Payloads("serverAdded") :
                Matches(o, p) =>
                    LET m == Dispatch(listeners["serverAdded"], p, Machine) IN
                    /\ ~m.thrown
                    /\ m.matched[o]

\* C34: a createServerFromPath that has rejected with its timeout sends no
\* request any more, whenever the answer of discovery arrives
C34_NoRequestAfterTimeout ==
    [][\A o \in Ops :
          (kind[o] = "createServerFromPath" /\ outcome[o] = "timeout") =>
              /\ request'[o] = request[o]
              /\ Count(calls'[o], "sendRequest")
                     = Count(calls[o], "sendRequest")]_vars

\* C35: after a startServerSync or stopServerSync of the launcher, resolved
\* or not, the handler the connection holds for state-change notifications
\* is still the adapter that emits 'serverStateChanged'
C35_StateChangesStillEmitted ==
    (\E o \in Ops : kind[o] \in LauncherKinds) => stateHandler = 0

\* C36: once disconnect has disposed the connection, no correlated operation
\* has its timer armed or its promise pending
C36_NoTimerArmedAfterDisconnect ==
    connection = "disposed" =>
        \A o \in Ops : timer[o] # "armed" /\ outcome[o] # "pending"

\* C37: after connect has rejected with its timeout the client has no
\* message connection, whatever the socket does later, and a disconnect
\* throws 'Connection not initialized'
C37_TimedOutConnectStaysUnconnected ==
    [][connecting.outcome = "timeout" =>
          /\ connection' = "undefined"
          /\ \A again \in LibraryOutcomes :
                 Disconnect(again) =>
                     raised' = "ConnectionError: Connection not initialized"]_vars

\* C38: a string prompt that has been answered was answered with what the
\* consumer supplied for that prompt: the value through the acceptor, or the
\* error through the rejector
C38_PromptAnsweredWithItsOwnAnswer ==
    \A i \in 1..Len(prompts) :
        prompts[i].state # "waiting" =>
            /\ prompts[i].answer = prompts[i].supplied
            /\ prompts[i].state = "resolved" <=> prompts[i].supplied \in Answers

\* the listeners of seq registered through an on<Event> method, in order
ConsumerListeners(seq) == SelectSeq(seq, LAMBDA l : l[1] = "user")

\* the listeners registered under name before a step and not after it
Removed(name) ==
    {listeners[name][i] : i \in 1..Len(listeners[name])}
        \ {listeners'[name][i] : i \in 1..Len(listeners'[name])}

\* C39: no step of a correlated operation, whatever its outcome, takes a
\* consumer's listener off any event name or moves it; what a step removes
\* is the listener of an operation that has settled
C39_ConsumersListenersKept ==
    [][\A name \in EventNames :
          /\ \/ ConsumerListeners(listeners'[name])
                    = ConsumerListeners(listeners[name])
             \/ \E u \in Users :
                    /\ ~IsRegistered(name, UserListener(u))
                    /\ listeners'[name]
                           = Append(listeners[name], UserListener(u))
          /\ \A l \in Removed(name) :
                 /\ l[1] = "handler"
                 /\ outcome'[l[2]] # "pending"]_vars

\* one call has timed out and the other has succeeded on serverStateChanged,
\* both have removed their listeners, and the consumer's is still there
C39_Witness ==
    /\ outcome[1] = "timeout"
    /\ outcome[2] = "success"
    /\ listeners["serverStateChanged"] = <<UserListener(1)>>

====
